---- MODULE Spec2Model ----
(***************************************************************************)
(* A model of the IDL front end of n-engine/idl_parser                     *)
(* (src/idl_parser.cxx, src/idl_parser.h): the textual preprocessor        *)
(* IdlParser::preprocessor, its minify step, and the declaration parser    *)
(* with its type registry.                                                 *)
(*                                                                         *)
(* Text is a sequence of one-character strings; the C string terminator is *)
(* the end of the sequence (NUL is what a read past the end returns).      *)
(* error(), TRACE_ERROR and printf only print: a diagnostic is appended to *)
(* the log and the code goes on with the next statement.                   *)
(***************************************************************************)
EXTENDS Integers, Sequences, FiniteSets, TLC

VARIABLES
    \* ---- one call of IdlParser::preprocessor (the frame being executed) ----
    pc,             \* "load" | "minify" | "scan" | "returned" | "abort" | "crash"
    data,           \* the buffer, written in place: output before d, input from s
    s,              \* the read position (1-based)
    d,              \* the write position (1-based)
    size,           \* int size: the length the buffer was given, grown by splices
    defines,        \* int_v defines: the conditional stack, 0 or 1 per entry
    define_ok,      \* the enabled flag
    current_line,   \* the line counter
    buf,            \* the directive name read by this pass of the loop
    name,           \* the name read after the directive
    path,           \* the directory of the file being preprocessed
    file,           \* the name of the file being preprocessed
    freed,          \* data has been handed to N_DEALLOCATE
    \* ---- the session and the calls in progress ----
    this_defines,   \* Map<String,String> defines: the define table
    callers,        \* the frames of the calls waiting in #include
    ret,            \* what the last finished call returned: "none" | "data" | "NULL"
    log,            \* the diagnostics printed
    input,          \* the bytes of the main file
    ndebug,         \* the build defines NDEBUG: ne_assert does nothing
    optimize_code,  \* optimize: the text it was given (const String& code)
    \* ---- the minify step applied on its own (minify_code) ----
    mpc,            \* "start" | "once" | "twice" | "crash"
    mtext,          \* the text handed to the step
    m1,             \* the text after one application
    m2,             \* the text after a second application
    \* ---- the declaration parser (IdlParser::parse) and its registry ----
    ppc,            \* "idle" | "parse" | "struct" | "done" | "crash"
    src,            \* the preprocessed text handed to parse
    pos,            \* the read position in src (1-based)
    depth,          \* the number of nested parse calls in progress
    nameSpace,      \* String nameSpace: the current namespace
    typedefs,       \* Typedef_t_v typedefs
    structs,        \* Struct_t_v structs
    variables,      \* Variable_t_v variables: the flat list
    udefines,       \* UDefine_t_v udefines
    str,            \* parse_struct: the Struct_t being built
    sbody,          \* parse_struct: the body text
    spos,           \* parse_struct: the read position in the body
    \* ---- one call of the scanner primitive read_block on its own ----
    bpc,            \* "idle" | "call" | "done"
    bsrc,           \* const char *src
    bfrom,          \* char from
    bto,            \* char to
    bdest,          \* char *dest: the text returned
    bret            \* the count returned

preVars == <<pc, data, s, d, size, defines, define_ok, current_line, buf, name,
             path, file, freed, this_defines, callers, ret, log, input, ndebug,
             optimize_code>>

minVars == <<mpc, mtext, m1, m2>>

parVars == <<ppc, src, pos, depth, nameSpace, typedefs, structs, variables,
             udefines, str, sbody, spos>>

blkVars == <<bpc, bsrc, bfrom, bto, bdest, bret>>

vars == <<preVars, minVars, parVars, blkVars>>

\* read_block is not being called on its own.
BlkIdle ==
    /\ bpc = "idle"
    /\ bsrc = <<>>
    /\ bfrom = "NUL"
    /\ bto = "NUL"
    /\ bdest = <<>>
    /\ bret = 0

\* The parser before parse is called: Parser() and its empty vectors.
ParIdle ==
    /\ ppc = "idle"
    /\ src = <<>>
    /\ pos = 1
    /\ depth = 0
    /\ nameSpace = <<>>
    /\ typedefs = <<>>
    /\ structs = <<>>
    /\ variables = <<>>
    /\ udefines = <<>>
    /\ str = <<>>
    /\ sbody = <<>>
    /\ spos = 1

(***************************************************************************)
(* Characters                                                              *)
(***************************************************************************)
NUL == "NUL"

\* The byte at the 1-based position p of text t: the terminator past the end.
At(t, p) == IF p \in 1..Len(t) THEN t[p] ELSE NUL

Alpha == {"a","b","c","d","e","f","g","h","i","j","k","l","m","n","o","p","q",
          "r","s","t","u","v","w","x","y","z",
          "A","B","C","D","E","F","G","H","I","J","K","L","M","N","O","P","Q",
          "R","S","T","U","V","W","X","Y","Z"}

Digit == {"0","1","2","3","4","5","6","7","8","9"}

isalpha(c) == c \in Alpha

isdigit(c) == c \in Digit

(***************************************************************************)
(* minify_code: comments stripped, \r dropped, tab to space, the first of  *)
(* two adjacent spaces or line feeds dropped, string literals copied.      *)
(* The macro works in place with d <= s; every read it makes, at s, s+1 and *)
(* s-1, is of a byte not yet overwritten with a different value, so the    *)
(* result is that of reading t and appending to out.                       *)
(* The result is [text, ub]: ub is set when the scan of an unterminated    *)
(* block comment steps over the terminator (s += 2 at the end of input).   *)
(***************************************************************************)
RECURSIVE SkipLineComment(_, _)
SkipLineComment(t, i) ==
    IF At(t, i) # NUL /\ At(t, i) # "\n" THEN SkipLineComment(t, i + 1) ELSE i

RECURSIVE SkipBlockComment(_, _)
SkipBlockComment(t, i) ==
    IF At(t, i) # NUL /\ (At(t, i) # "*" \/ At(t, i + 1) # "/")
    THEN SkipBlockComment(t, i + 1)
    ELSE i

\* The end of a string literal: the first quote not preceded by a backslash.
RECURSIVE StringEnd(_, _)
StringEnd(t, i) ==
    IF At(t, i) # NUL /\ (At(t, i) # "\"" \/ At(t, i - 1) = "\\")
    THEN StringEnd(t, i + 1)
    ELSE i

RECURSIVE MinifyFrom(_, _, _)
MinifyFrom(t, i, out) ==
    CASE i > Len(t) + 1 -> [text |-> out, ub |-> TRUE]
      [] i = Len(t) + 1 -> [text |-> out, ub |-> FALSE]
      [] i <= Len(t) /\ t[i] = "/" /\ At(t, i + 1) = "/" ->
            MinifyFrom(t, SkipLineComment(t, i), out)
      [] i <= Len(t) /\ t[i] = "/" /\ At(t, i + 1) = "*" ->
            MinifyFrom(t, SkipBlockComment(t, i) + 2, out)
      [] i <= Len(t) /\ t[i] = "\"" ->
            LET e == StringEnd(t, i + 1)
                last == IF e <= Len(t) THEN e ELSE Len(t)
            IN  MinifyFrom(t, last + 1, out \o SubSeq(t, i, last))
      [] i <= Len(t) /\ t[i] = "\r" -> MinifyFrom(t, i + 1, out)
      [] i <= Len(t) /\ t[i] = "\t" -> MinifyFrom(t, i + 1, Append(out, " "))
      [] i <= Len(t) /\ t[i] = " " /\ At(t, i + 1) = " " -> MinifyFrom(t, i + 1, out)
      [] i <= Len(t) /\ t[i] = "\n" /\ At(t, i + 1) = "\n" -> MinifyFrom(t, i + 1, out)
      [] OTHER -> MinifyFrom(t, i + 1, Append(out, t[i]))

minify_code(t) == MinifyFrom(t, 1, <<>>)

(***************************************************************************)
(* Bounded text                                                            *)
(***************************************************************************)
RECURSIVE SeqsUpTo(_, _)
SeqsUpTo(S, n) ==
    IF n = 0 THEN {<<>>}
    ELSE LET shorter == SeqsUpTo(S, n - 1)
         IN  shorter \cup {Append(q, c) : q \in shorter, c \in S}

\* What the bytes after a buffer's end may hold when the scan runs past it.
Garbage == {<<>>, <<"?">>}

(***************************************************************************)
(* Scanner primitives.  Each returns the text read and the position after  *)
(* it (the code returns the count of bytes consumed and the caller adds it *)
(* to s), with the diagnostics it printed.  The fixed capacities of the    *)
(* destinations (256, 1024 and 4096 bytes) are above every text of the     *)
(* model and are left out.                                                 *)
(***************************************************************************)
RECURSIVE skip_spaces(_, _)
skip_spaces(t, i) ==
    IF At(t, i) \in {" ", "\n"} THEN skip_spaces(t, i + 1) ELSE i

IsTokenChar(c) == isalpha(c) \/ isdigit(c) \/ c \in {"_", ":"}

RECURSIVE TokenEnd(_, _)
TokenEnd(t, i) == IF IsTokenChar(At(t, i)) THEN TokenEnd(t, i + 1) ELSE i

\* read_token(src, dest, size, NULL): 0 bytes consumed at the end of input.
read_token(t, i) ==
    LET b == skip_spaces(t, i)
        e == TokenEnd(t, b)
    IN  IF At(t, b) = NUL
        THEN [text |-> <<>>, pos |-> i]
        ELSE [text |-> SubSeq(t, b, e - 1), pos |-> e]

read_name(t, i) ==
    LET b == skip_spaces(t, i)
        e == TokenEnd(t, b)
        bad == At(t, b) = NUL \/ (~isalpha(At(t, b)) /\ At(t, b) \notin {"_", ":"})
    IN  [text |-> SubSeq(t, b, e - 1), pos |-> e,
         err |-> IF bad THEN <<"read_name: bad name">> ELSE <<>>]

\* get_symbol(src, symbols): the next character after spaces, not consumed.
get_symbol(t, i, symbols) ==
    LET b == skip_spaces(t, i)
    IN  [c |-> At(t, b),
         err |-> IF At(t, b) = NUL \/ At(t, b) \notin symbols
                 THEN <<"get_symbol: bad symbol">> ELSE <<>>]

RECURSIVE SkipBlanks(_, _)
SkipBlanks(t, i) == IF At(t, i) = " " THEN SkipBlanks(t, i + 1) ELSE i

\* The loop of read_block, one character per call.  st holds the locals:
\* s, dest, is_string, braces, counter, err, ub.
RECURSIVE BlockLoop(_, _, _, _)
BlockLoop(t, from, to, st) ==
    IF At(t, st.s) = NUL THEN st
    ELSE IF st.is_string = 0
    THEN LET c0 == t[st.s]
             quote == c0 = "\""
             br == IF quote THEN st.braces
                   ELSE IF c0 = "(" THEN st.braces + 1
                   ELSE IF c0 = ")" THEN st.braces - 1
                   ELSE st.braces
             e1 == IF ~quote /\ c0 = ")" /\ br < 0
                   THEN <<"read_block: count of ( and )">> ELSE <<>>
             \* a backslash before a line feed: both are skipped
             esc == ~quote /\ c0 = "\\" /\ At(t, st.s + 1) = "\n"
             p == IF esc THEN st.s + 2 ELSE st.s
             c == At(t, p)
             track == ~quote /\ from # NUL /\ to # NUL
             cnt == IF track /\ c = from THEN st.counter + 1
                    ELSE IF track /\ c = to THEN st.counter - 1
                    ELSE st.counter
             e2 == IF track /\ c # from /\ c = to /\ cnt < 0
                   THEN <<"read_block: count of from and to">> ELSE <<>>
             errs == st.err \o e1 \o e2
         IN  IF c = to /\ cnt = 0 /\ br = 0
             THEN [st EXCEPT !.s = p + 1, !.braces = br, !.counter = cnt,
                             !.err = errs]
             ELSE IF c = NUL
             \* the terminator is copied and s steps over it
             THEN [st EXCEPT !.s = p + 1, !.braces = br, !.counter = cnt,
                             !.err = errs, !.ub = TRUE]
             ELSE BlockLoop(t, from, to,
                    [st EXCEPT !.s = p + 1, !.dest = Append(st.dest, c),
                               !.is_string = IF quote THEN 1 ELSE 0,
                               !.braces = br, !.counter = cnt, !.err = errs])
    ELSE LET c == t[st.s]
             closes == c = "\"" /\ At(t, st.s - 1) # "\\"
         IN  IF closes /\ c = to
             THEN [st EXCEPT !.s = st.s + 1, !.is_string = 0]
             ELSE BlockLoop(t, from, to,
                    [st EXCEPT !.s = st.s + 1, !.dest = Append(st.dest, c),
                               !.is_string = IF closes THEN 0 ELSE 1])

\* A reader that stops at the first to it meets, whatever the nesting.
FirstCloser(t, i, from, to) ==
    LET b == SkipBlanks(t, i)
        first == IF At(t, b) = from /\ At(t, b) # NUL THEN b + 1 ELSE b
        ends == {j \in first..Len(t) : t[j] = to}
        last == IF ends = {} THEN Len(t) + 1
                ELSE CHOOSE j \in ends : \A k \in ends : j <= k
    IN  [text |-> SubSeq(t, first, last - 1),
         pos |-> IF ends = {} THEN last ELSE last + 1,
         err |-> <<>>, ub |-> FALSE]

\* read_block(src, dest, size, from, to): [text, pos, err, ub].
read_block(t, i, from, to) ==
    LET b == SkipBlanks(t, i)
        opens == At(t, b) = from /\ At(t, b) # NUL
        st0 == [s |-> IF opens THEN b + 1 ELSE b,
                dest |-> <<>>,
                is_string |-> IF opens /\ t[b] = "\"" THEN 1 ELSE 0,
                braces |-> IF opens /\ t[b] = "(" THEN 1 ELSE 0,
                counter |-> IF opens THEN 1 ELSE 0,
                err |-> <<>>, ub |-> FALSE]
        st == BlockLoop(t, from, to, st0)
    IN  IF At(t, b) = NUL
        THEN [text |-> <<>>, pos |-> i, err |-> <<>>, ub |-> FALSE]
        ELSE [text |-> st.dest, pos |-> st.s, err |-> st.err, ub |-> st.ub]

(***************************************************************************)
(* The preprocessor: IdlParser::preprocessor(path, file, data, len) and    *)
(* the loader IdlParser::preprocessor(name) that #include calls.           *)
(***************************************************************************)
\* The characters that end an identifier-like run (the strchr set).
Delims == {" ", "\n", ",", ".", "=", ":", ";", "(", ")", "[", "]", "{", "}",
           "<", ">", "+", "-", "*", "/", "%", "!", "&", "|", "^", "\"", "'"}

\* String(int): the decimal digits of a line number.
DigitOf(n) == CASE n = 0 -> "0" [] n = 1 -> "1" [] n = 2 -> "2" [] n = 3 -> "3"
                [] n = 4 -> "4" [] n = 5 -> "5" [] n = 6 -> "6" [] n = 7 -> "7"
                [] n = 8 -> "8" [] n = 9 -> "9"

RECURSIVE IntToText(_)
IntToText(n) ==
    IF n < 10 THEN <<DigitOf(n)>>
    ELSE Append(IntToText(n \div 10), DigitOf(n % 10))

\* The names of the directives, as read_token returns them.
Str_ifdef   == <<"i","f","d","e","f">>
Str_ifndef  == <<"i","f","n","d","e","f">>
Str_else    == <<"e","l","s","e">>
Str_endif   == <<"e","n","d","i","f">>
Str_if      == <<"i","f">>
Str_elif    == <<"e","l","i","f">>
Str_define  == <<"d","e","f","i","n","e">>
Str_undef   == <<"u","n","d","e","f">>
Str_pragma  == <<"p","r","a","g","m","a">>
Str_include == <<"i","n","c","l","u","d","e">>
Str_FILE    == <<"_","_","F","I","L","E","_","_">>
Str_LINE    == <<"_","_","L","I","N","E","_","_">>

KnownDirectives == {Str_ifdef, Str_ifndef, Str_else, Str_endif, Str_if,
                    Str_elif, Str_define, Str_undef, Str_pragma, Str_include}

\* The diagnostics the preprocessor prints.
ErrElse     == "#else is before #ifdef, #ifndef, #if"
ErrEndif    == "#endif is before #ifdef or #ifndef"
ErrUnknown  == "unknown prepocessor token"
ErrOptions  == "bad preprocessor options"
ErrLoad     == "Can't load file"
ErrNoFile   == "can't find file"
ErrIf       == "Directive '#if' is not supported, skipping."
ErrElif     == "Directive '#elif' is not supported, skipping."

\* ---- the files on disk ----
NoFile == "NoFile"

MainName == <<"d", "/", "m">>

\* getFile(name): the file's bytes, or NoFile (a null pointer).  The main
\* file d/m holds the input; d/i is found only beside the main file, j is
\* found as given, every other name is missing.
getFile(fname, main) ==
    IF fname = MainName THEN main
    ELSE IF fname = <<"d", "/", "i">> THEN <<"G", ";">>
    ELSE IF fname = <<"j">> THEN <<"F", " ", "/", "/", "c", "\n", "H", ";">>
    ELSE NoFile

\* The directory part of a file name: everything before its last / or \.
RECURSIVE LastSlash(_, _)
LastSlash(n, p) ==
    IF p > 0 /\ At(n, p + 1) \notin {"/", "\\"} THEN LastSlash(n, p - 1) ELSE p

Dirname(n) == SubSeq(n, 1, LastSlash(n, Len(n)))

\* sprintf(buf, "%s/%s", path, name)
JoinPath(p, n) == p \o <<"/">> \o n

\* ifdef(name)
ifdef(tab, n) == IF n \in DOMAIN tab THEN 1 ELSE 0

\* define(name, value)
define(tab, n, v) == [k \in DOMAIN tab \cup {n} |-> IF k = n THEN v ELSE tab[k]]

\* undef(name)
undef(tab, n) == [k \in DOMAIN tab \ {n} |-> tab[k]]

\* A variant that looks at the top entry of the stack only.
TopEntryOnly(stack) ==
    IF stack # <<>> /\ stack[Len(stack)] = 0 THEN 0 ELSE 1

\* define_ok = 1; for (i...) if (defines[i] == 0) { define_ok = 0; break; }
ComputeDefineOk(stack) ==
    IF \E i \in 1..Len(stack) : stack[i] = 0 THEN 0 ELSE 1

Not(v) == IF v = 0 THEN 1 ELSE 0

\* "file:line" in quotes, the value bound to __FILE__.
FileText(fname, ln) == <<"\"">> \o fname \o <<":">> \o IntToText(ln) \o <<"\"">>

\* *d++ = *s++ over the bytes seg: they are written from position dp on.
Poke(dt, dp, seg) ==
    [i \in 1..Len(dt) |->
        IF i >= dp /\ i < dp + Len(seg) THEN seg[i - dp + 1] ELSE dt[i]]

\* t-- while the byte is no delimiter; t++: where the run ending at dp-1 starts.
RECURSIVE RunStart(_, _)
RunStart(dt, t) ==
    IF t >= 1 /\ dt[t] \notin Delims THEN RunStart(dt, t - 1) ELSE t + 1

\* if (define && *define != '0'): the test that chooses replacement over deletion.
ReplaceTest(value) == At(value, 1) # "0"

\* One pass of the loop body below the directives (the lines from the
\* refresh of __FILE__ and __LINE__ to the end of the loop): the new data,
\* s, d, size, define table and whether data is released storage.
CharStep(dt, sp, dp, sz, tab0, ok, fr, fname, ln) ==
    LET tab == define(define(tab0, Str_FILE, FileText(fname, ln)),
                      Str_LINE, IntToText(ln))
        same == [data |-> dt, s |-> sp, d |-> dp, size |-> sz,
                 tab |-> tab, freed |-> fr]
    IN  IF ok = 0 THEN [same EXCEPT !.s = sp + 1]
        ELSE IF dt[sp] = "'" /\ At(dt, sp + 1) = "\\" /\ At(dt, sp + 2) # NUL
                /\ At(dt, sp + 3) = "'"
        THEN [same EXCEPT !.data = Poke(dt, dp, SubSeq(dt, sp, sp + 3)),
                          !.s = sp + 4, !.d = dp + 4]
        ELSE IF dt[sp] = "'" /\ At(dt, sp + 2) # "\\" /\ At(dt, sp + 2) = "'"
        THEN [same EXCEPT !.data = Poke(dt, dp, SubSeq(dt, sp, sp + 2)),
                          !.s = sp + 3, !.d = dp + 3]
        ELSE
        LET c == dt[sp]
            is_string == c = "\""
            dt1 == [dt EXCEPT ![dp] = c]
            s1 == sp + 1
            t == RunStart(dt1, dp - 1)
            run == SubSeq(dt1, t, dp - 1)
            hit == dp > 1 /\ c \in Delims /\ t < dp /\ run \in DOMAIN tab
            replace == hit /\ ReplaceTest(tab[run])
            \* after the replacement or the deletion, before d++
            dt2 == IF replace
                   THEN SubSeq(dt1, 1, t - 1) \o tab[run] \o <<c>>
                        \o SubSeq(dt1, s1, Len(dt1))
                   ELSE IF hit THEN [dt1 EXCEPT ![t] = c]
                   ELSE dt1
            s2 == IF replace THEN t + Len(tab[run]) + 1 ELSE s1
            d2 == IF replace THEN s2 - 1 ELSE IF hit THEN t ELSE dp
            d3 == d2 + 1
            \* the rest of a string literal is copied through
            e == StringEnd(dt2, s2)
            last == IF e <= Len(dt2) THEN e ELSE Len(dt2)
        IN  [data |-> IF is_string THEN Poke(dt2, d3, SubSeq(dt2, s2, last))
                      ELSE dt2,
             s |-> IF is_string THEN last + 1 ELSE s2,
             d |-> IF is_string THEN d3 + (last - s2 + 1) ELSE d3,
             size |-> IF replace THEN sz + Len(tab[run]) ELSE sz,
             tab |-> tab,
             freed |-> IF replace THEN FALSE ELSE fr]

\* ---- the frame of a preprocessor call ----
InLoop == pc = "scan" /\ s <= Len(data)

AtDirective == InLoop /\ data[s] = "#"

\* s++; s += read_token(s, buf, sizeof(buf));
tok == read_token(data, s + 1)

Frame == [data |-> data, s |-> s, d |-> d, size |-> size, defines |-> defines,
          define_ok |-> define_ok, current_line |-> current_line,
          path |-> path, file |-> file, freed |-> freed]

callVars == <<callers, ret, input, ndebug, optimize_code, minVars, parVars,
              blkVars>>

\* IdlParser::preprocessor(name): the directory of the name, the file read.
LoadFile ==
    /\ pc = "load"
    /\ path' = Dirname(file)
    /\ LET BufferData == getFile(file, input)
       IN  IF BufferData = NoFile
           THEN /\ log' = Append(log, ErrLoad)
                /\ pc' = IF ndebug THEN "minify" ELSE "abort"   \* ne_assert(0)
                /\ data' = <<>>
                /\ size' = 0
           ELSE /\ log' = log
                /\ pc' = "minify"
                /\ data' = BufferData
                /\ size' = Len(BufferData)
    /\ UNCHANGED <<s, d, defines, define_ok, current_line, this_defines, buf,
                   name, file, freed, callVars>>

\* The head of preprocessor(path, file, data, len): minify_code, then the
\* locals of the scan.
Minify ==
    /\ pc = "minify"
    /\ LET r == minify_code(data)
       IN  \/ /\ pc' = "scan"
              /\ \E g \in (IF r.ub THEN Garbage ELSE {<<>>}) : data' = r.text \o g
           \/ /\ r.ub
              /\ pc' = "crash"
              /\ data' = data
    /\ s' = 1
    /\ d' = 1
    /\ defines' = <<>>
    /\ define_ok' = 1
    /\ current_line' = 0
    /\ UNCHANGED <<size, this_defines, buf, name, path, file, freed, log, callVars>>

IfDef ==
    /\ AtDirective
    /\ tok.text = Str_ifdef
    /\ LET r == read_name(data, tok.pos)
       IN  /\ buf' = tok.text
           /\ name' = r.text
           /\ defines' = Append(defines, ifdef(this_defines, r.text))
           /\ s' = r.pos
           /\ log' = log \o r.err
    /\ define_ok' = ComputeDefineOk(defines')
    /\ UNCHANGED <<pc, data, d, size, current_line, this_defines, path, file,
                   freed, callVars>>

IfNDef ==
    /\ AtDirective
    /\ tok.text = Str_ifndef
    /\ LET r == read_name(data, tok.pos)
       IN  /\ buf' = tok.text
           /\ name' = r.text
           /\ defines' = Append(defines, Not(ifdef(this_defines, r.text)))
           /\ s' = r.pos
           /\ log' = log \o r.err
    /\ define_ok' = ComputeDefineOk(defines')
    /\ UNCHANGED <<pc, data, d, size, current_line, this_defines, path, file,
                   freed, callVars>>

\* #else.  With an empty stack the buffer is released, the diagnostic is
\* printed and the code goes on: it negates defines[size - 1], which is a
\* read and a write before the first element and leaves the stack empty.
Else ==
    /\ AtDirective
    /\ tok.text = Str_else
    /\ buf' = tok.text
    /\ s' = tok.pos
    /\ IF Len(defines) < 1
       THEN /\ freed' = TRUE
            /\ log' = Append(log, ErrElse)
            /\ defines' = defines
       ELSE /\ freed' = freed
            /\ log' = log
            /\ defines' = [defines EXCEPT ![Len(defines)] = Not(defines[Len(defines)])]
    /\ define_ok' = ComputeDefineOk(defines')
    /\ UNCHANGED <<pc, data, d, size, current_line, this_defines, name, path,
                   file, callVars>>

\* #endif.  With an empty stack the buffer is released, the diagnostic is
\* printed and pop_back() is called on the empty vector, which stays empty.
EndIf ==
    /\ AtDirective
    /\ tok.text = Str_endif
    /\ buf' = tok.text
    /\ s' = tok.pos
    /\ IF Len(defines) < 1
       THEN /\ freed' = TRUE
            /\ log' = Append(log, ErrEndif)
            /\ defines' = defines
       ELSE /\ freed' = freed
            /\ log' = log
            /\ defines' = SubSeq(defines, 1, Len(defines) - 1)
    /\ define_ok' = ComputeDefineOk(defines')
    /\ UNCHANGED <<pc, data, d, size, current_line, this_defines, name, path,
                   file, callVars>>

\* #if and #elif: while (*s && *s != '\n') s++;
\* A #if or #elif that is taken as a false condition: a frame is pushed.
IfPushesFrame ==
    /\ AtDirective
    /\ tok.text \in {Str_if, Str_elif}
    /\ buf' = tok.text
    /\ s' = SkipLineComment(data, tok.pos)
    /\ log' = Append(log, IF tok.text = Str_if THEN ErrIf ELSE ErrElif)
    /\ defines' = Append(defines, 0)
    /\ define_ok' = 0
    /\ UNCHANGED <<pc, data, d, size, current_line,
                   this_defines, name, path, file, freed, callVars>>

SkipDirectiveLine ==
    /\ AtDirective
    /\ tok.text \in {Str_if, Str_elif}
    /\ buf' = tok.text
    /\ s' = SkipLineComment(data, tok.pos)
    /\ log' = Append(log, IF tok.text = Str_if THEN ErrIf ELSE ErrElif)
    /\ UNCHANGED <<pc, data, d, size, defines, define_ok, current_line,
                   this_defines, name, path, file, freed, callVars>>

Define ==
    /\ AtDirective
    /\ tok.text = Str_define
    /\ LET r == read_name(data, tok.pos)
           b == read_block(data, r.pos, NUL, "\n")
           value == IF At(data, r.pos) = "\n" THEN <<>> ELSE b.text
       IN  /\ buf' = tok.text
           /\ name' = r.text
           /\ s' = IF At(data, r.pos) = "\n" THEN r.pos + 1 ELSE b.pos
           /\ log' = log \o r.err \o (IF At(data, r.pos) = "\n" THEN <<>> ELSE b.err)
           /\ this_defines' = IF define_ok # 0
                              THEN define(this_defines, r.text, value)
                              ELSE this_defines
    /\ UNCHANGED <<pc, data, d, size, defines, define_ok, current_line, path,
                   file, freed, callVars>>

Undef ==
    /\ AtDirective
    /\ tok.text = Str_undef
    /\ LET r == read_name(data, tok.pos)
       IN  /\ buf' = tok.text
           /\ name' = r.text
           /\ s' = r.pos
           /\ log' = log \o r.err
           /\ this_defines' = IF define_ok # 0
                              THEN undef(this_defines, r.text)
                              ELSE this_defines
    /\ UNCHANGED <<pc, data, d, size, defines, define_ok, current_line, path,
                   file, freed, callVars>>

Pragma ==
    /\ AtDirective
    /\ tok.text = Str_pragma
    /\ LET r == read_name(data, tok.pos)
           b == read_block(data, r.pos, NUL, "\n")
       IN  /\ buf' = tok.text
           /\ name' = r.text
           /\ s' = b.pos
           /\ log' = log \o r.err \o b.err
    /\ UNCHANGED <<pc, data, d, size, defines, define_ok, current_line,
                   this_defines, path, file, freed, callVars>>

\* The name of an #include: "name" or <name>.
IncludeName ==
    LET g == get_symbol(data, tok.pos, {"\"", "<"})
        b == IF g.c = "\"" THEN read_block(data, tok.pos, "\"", "\"")
             ELSE IF g.c = "<" THEN read_block(data, tok.pos, "<", ">")
             ELSE [text |-> <<>>, pos |-> tok.pos, err |-> <<>>, ub |-> FALSE]
    IN  [text |-> b.text, pos |-> b.pos, err |-> g.err \o b.err]

\* #include in a disabled region: the name is read and nothing else is done.
IncludeSkipped ==
    /\ AtDirective
    /\ tok.text = Str_include
    /\ define_ok = 0
    /\ buf' = tok.text
    /\ name' = IncludeName.text
    /\ s' = IncludeName.pos
    /\ log' = log \o IncludeName.err
    /\ UNCHANGED <<pc, data, d, size, defines, define_ok, current_line,
                   this_defines, path, file, freed, callVars>>

\* #include in an enabled region: char *include = preprocessor(name);
IncludeCall ==
    /\ AtDirective
    /\ tok.text = Str_include
    /\ define_ok # 0
    /\ buf' = tok.text
    /\ name' = IncludeName.text
    /\ log' = log \o IncludeName.err
    /\ callers' = Append(callers, [Frame EXCEPT !.s = IncludeName.pos]
                                   @@ [name |-> IncludeName.text, second |-> FALSE])
    /\ pc' = "load"
    /\ file' = IncludeName.text
    /\ data' = <<>>
    /\ s' = 1
    /\ d' = 1
    /\ size' = 0
    /\ defines' = <<>>
    /\ define_ok' = 1
    /\ current_line' = 0
    /\ freed' = FALSE
    /\ UNCHANGED <<this_defines, path, ret, input, ndebug, optimize_code, minVars,
                   parVars, blkVars>>

\* The return from preprocessor(name) into the #include that called it:
\* the second lookup when the first returned a null pointer, else the splice
\* of the included text between the output (before d) and the input (from s).
IncludeReturn ==
    /\ pc = "returned"
    /\ callers # <<>>
    /\ LET top == callers[Len(callers)]
           include == data
       IN  IF ret = "NULL" /\ ~top.second
           THEN \* sprintf(buf, "%s/%s", path, name); include = preprocessor(buf);
                /\ callers' = [callers EXCEPT ![Len(callers)].second = TRUE]
                /\ pc' = "load"
                /\ file' = JoinPath(top.path, top.name)
                /\ data' = <<>>
                /\ s' = 1
                /\ d' = 1
                /\ size' = 0
                /\ defines' = <<>>
                /\ define_ok' = 1
                /\ current_line' = 0
                /\ freed' = FALSE
                /\ UNCHANGED <<path, log, buf, name>>
           ELSE IF ret = "NULL"
           THEN \* the diagnostic, then strlen of the null pointer
                /\ log' = Append(log, ErrNoFile)
                /\ pc' = "crash"
                /\ UNCHANGED <<callers, file, data, s, d, size, defines,
                               define_ok, current_line, freed, path, buf, name>>
           ELSE /\ callers' = SubSeq(callers, 1, Len(callers) - 1)
                /\ pc' = "scan"
                /\ data' = SubSeq(top.data, 1, top.d - 1) \o include
                           \o SubSeq(top.data, top.s, Len(top.data))
                /\ s' = top.d + Len(include)
                /\ d' = top.d + Len(include)
                /\ size' = top.size + Len(include)
                /\ defines' = top.defines
                /\ define_ok' = top.define_ok
                /\ current_line' = top.current_line
                /\ path' = top.path
                /\ file' = top.file
                /\ freed' = FALSE
                /\ buf' = Str_include
                /\ name' = top.name
                /\ log' = log
    /\ UNCHANGED <<this_defines, ret, input, ndebug, optimize_code, minVars,
                   parVars, blkVars>>

\* A directive that is none of the above: the buffer is released, the
\* diagnostic is printed and the code falls through to the rest of the loop
\* body with s after the token.  At the end of the input that body steps
\* over the terminator; the scan is then taken to end there.
UnknownDirective ==
    /\ AtDirective
    /\ tok.text \notin KnownDirectives
    /\ buf' = tok.text
    /\ log' = Append(log, ErrUnknown)
    /\ IF At(data, tok.pos) = NUL
       THEN /\ s' = tok.pos
            /\ freed' = TRUE
            /\ UNCHANGED <<data, d, size, this_defines>>
       ELSE LET r == CharStep(data, tok.pos, d, size, this_defines, define_ok,
                              TRUE, file, current_line)
            IN  /\ data' = r.data
                /\ s' = r.s
                /\ d' = r.d
                /\ size' = r.size
                /\ this_defines' = r.tab
                /\ freed' = r.freed
    /\ UNCHANGED <<pc, defines, define_ok, current_line, name, path, file, callVars>>

\* Any other character: the line counter, then the rest of the loop body.
CopyChar ==
    /\ InLoop
    /\ data[s] # "#"
    /\ current_line' = IF data[s] = "\n" THEN current_line + 1 ELSE current_line
    /\ LET r == CharStep(data, s, d, size, this_defines, define_ok, freed,
                         file, current_line')
       IN  /\ data' = r.data
           /\ s' = r.s
           /\ d' = r.d
           /\ size' = r.size
           /\ this_defines' = r.tab
           /\ freed' = r.freed
    /\ buf' = <<>>
    /\ name' = <<>>
    /\ UNCHANGED <<pc, defines, define_ok, path, file, log, callVars>>

\* The end of the input: *d = '\0', the check of the stack, return data.
Return ==
    /\ pc = "scan"
    /\ s > Len(data)
    /\ data' = SubSeq(data, 1, d - 1)
    /\ IF Len(defines) # 0
       THEN /\ freed' = TRUE
            /\ log' = Append(log, ErrOptions)
       ELSE /\ freed' = freed
            /\ log' = log
    /\ pc' = "returned"
    /\ ret' = "data"
    /\ UNCHANGED <<s, d, size, defines, define_ok, current_line, this_defines,
                   buf, name, path, file, callers, input, ndebug, optimize_code,
                   minVars, parVars, blkVars>>

\* Released storage is read or released again: the process may stop there.
Crash ==
    /\ freed
    /\ IF pc = "returned" THEN callers # <<>> ELSE pc = "scan"
    /\ pc' = "crash"
    /\ UNCHANGED <<data, s, d, size, defines, define_ok, current_line,
                   this_defines, buf, name, path, file, freed, log, callVars>>

PreNext ==
    \/ LoadFile \/ Minify
    \/ IfDef \/ IfNDef \/ Else \/ EndIf \/ SkipDirectiveLine
    \/ Define \/ Undef \/ Pragma
    \/ IncludeSkipped \/ IncludeCall \/ IncludeReturn
    \/ UnknownDirective \/ CopyChar \/ Return \/ Crash

(***************************************************************************)
(* The inputs: the main file is up to MaxFrags pieces of one of three      *)
(* families (conditional directives; macro substitution; file inclusion    *)
(* and the other directives).  NDEBUG decides what ne_assert(0) does, so   *)
(* both builds are taken where a file may be missing.                      *)
(***************************************************************************)
MaxFrags == 3

RECURSIVE Concats(_, _)
Concats(F, n) ==
    IF n = 0 THEN {<<>>}
    ELSE LET shorter == Concats(F, n - 1)
         IN  shorter \cup {a \o f : a \in shorter, f \in F}

Hash == <<"#">>

CondFrags ==
    { Hash \o Str_ifdef \o <<" ", "F", "\n">>,
      Hash \o Str_ifndef \o <<" ", "F", "\n">>,
      Hash \o Str_else \o <<"\n">>,
      Hash \o Str_endif \o <<"\n">>,
      Hash \o Str_define \o <<" ", "F", " ", "5", "\n">>,
      Hash \o Str_undef \o <<" ", "F", "\n">>,
      Hash \o Str_if \o <<" ", "F", "\n">>,
      Hash \o Str_elif \o <<" ", "F", "\n">>,
      <<"F", ";">> }

SubstFrags ==
    { Hash \o Str_define \o <<" ", "F", " ", "5", "\n">>,
      Hash \o Str_define \o <<" ", "F", " ", "0", "x", "1", "\n">>,
      Hash \o Str_define \o <<" ", "F", " ", "0", "\n">>,
      Hash \o Str_define \o <<" ", "F", "\n">>,
      Hash \o Str_define \o <<" ", "F", " ", "(", "\n">>,
      <<"F", ";">>,
      <<"F">>,
      <<"\"", "F", "\"">>,
      <<"'", "F", "'">>,
      <<"G", "F", " ">> }

IncludeFrags ==
    { Hash \o Str_include \o <<" ", "\"", "i", "\"", "\n">>,
      Hash \o Str_include \o <<" ", "<", "j", ">", "\n">>,
      Hash \o Str_include \o <<" ", "\"", "k", "\"", "\n">>,
      Hash \o Str_pragma \o <<" ", "p", " ", "q", "\n">>,
      Hash \o <<"b", "a", "d", "\n">>,
      Hash \o Str_ifdef \o <<" ", "F", "\n">>,
      Hash \o Str_define \o <<" ", "F", " ", "5", "\n">>,
      <<"F", ";">> }

\* A macro whose value is the name of another macro, and their uses.
ChainFrags ==
    { Hash \o Str_define \o <<" ", "A", " ", "B", "\n">>,
      Hash \o Str_define \o <<" ", "B", " ", "7", "\n">>,
      <<"A", ";">>,
      <<"B", ";">> }

\* Uses of __LINE__ before different delimiters, among lines and directives.
LineFrags ==
    { Str_LINE \o <<";">>,
      Str_LINE \o <<"\n">>,
      <<"x", "\n">>,
      Hash \o Str_define \o <<" ", "F", " ", "5", "\n">>,
      Hash \o Str_ifndef \o <<" ", "F", "\n">> }

Scenarios ==
    { [frags |-> CondFrags, builds |-> {FALSE}],
      [frags |-> SubstFrags, builds |-> {FALSE}],
      [frags |-> IncludeFrags, builds |-> BOOLEAN],
      [frags |-> ChainFrags, builds |-> {FALSE}],
      [frags |-> LineFrags, builds |-> {FALSE}] }

\* IdlParser(file): the session is built from the file d/m; its define
\* table starts empty.
PreInit ==
    /\ \E sc \in Scenarios :
          /\ input \in Concats(sc.frags, MaxFrags)
          /\ ndebug \in sc.builds
    /\ pc = "load"
    /\ file = MainName
    /\ path = <<>>
    /\ data = <<>>
    /\ s = 1
    /\ d = 1
    /\ size = 0
    /\ defines = <<>>
    /\ define_ok = 1
    /\ current_line = 0
    /\ this_defines = <<>>
    /\ buf = <<>>
    /\ name = <<>>
    /\ callers = <<>>
    /\ freed = FALSE
    /\ ret = "none"
    /\ log = <<>>
    /\ optimize_code = <<>>
    /\ mpc = "idle"
    /\ mtext = <<>>
    /\ m1 = <<>>
    /\ m2 = <<>>
    /\ ParIdle
    /\ BlkIdle

SpecPre == PreInit /\ [][PreNext]_vars

(***************************************************************************)
(* The session built from a file, IdlParser(file): the text returned by    *)
(* preprocessor(file) is handed to optimize, which copies it and calls the *)
(* preprocessor on the copy before it parses the result.  The define table *)
(* is a member of the session and is kept between the two calls.           *)
(***************************************************************************)
SecondPass == path = <<".">>

\* code = optimize(file, str): the copy of str and the call
\* preprocessor(".", filename, data, strlen(data)).  A str that the first
\* call has released is read all the same: the copy may succeed or the
\* process may stop.
Optimize ==
    /\ pc = "returned"
    /\ callers = <<>>
    /\ ~SecondPass
    /\ ret = "data"
    /\ \/ /\ pc' = "minify"
          /\ optimize_code' = data
          /\ size' = Len(data)
          /\ path' = <<".">>
          /\ freed' = FALSE
          /\ ret' = "none"
       \/ /\ freed
          /\ pc' = "crash"
          /\ UNCHANGED <<optimize_code, size, path, freed, ret>>
    /\ UNCHANGED <<data, s, d, defines, define_ok, current_line, this_defines,
                   buf, name, file, callers, log, input, ndebug, minVars,
                   parVars, blkVars>>

SessionNext == PreNext \/ Optimize

SpecSession == PreInit /\ [][SessionNext]_vars

(***************************************************************************)
(* The minify step on its own, applied once and then to its own result.    *)
(***************************************************************************)
MaxMinLen == 3

MinAlphabet == {"a", " ", "\n", "\t", "\r", "/", "*", "\""}

MinInit ==
    /\ mtext \in SeqsUpTo(MinAlphabet, MaxMinLen)
    /\ mpc = "start"
    /\ m1 = <<>>
    /\ m2 = <<>>
    /\ pc = "idle"
    /\ data = <<>>
    /\ s = 1
    /\ d = 1
    /\ size = 0
    /\ defines = <<>>
    /\ define_ok = 1
    /\ current_line = 0
    /\ buf = <<>>
    /\ name = <<>>
    /\ path = <<>>
    /\ file = <<>>
    /\ freed = FALSE
    /\ this_defines = <<>>
    /\ callers = <<>>
    /\ ret = "none"
    /\ log = <<>>
    /\ input = <<>>
    /\ ndebug = FALSE
    /\ optimize_code = <<>>
    /\ ParIdle
    /\ BlkIdle

MinifyFirst ==
    /\ mpc = "start"
    /\ LET r == minify_code(mtext)
       IN  \/ /\ mpc' = "once"
              /\ \E g \in (IF r.ub THEN Garbage ELSE {<<>>}) : m1' = r.text \o g
           \/ /\ r.ub
              /\ mpc' = "crash"
              /\ m1' = m1
    /\ UNCHANGED <<mtext, m2, preVars, parVars, blkVars>>

MinifySecond ==
    /\ mpc = "once"
    /\ LET r == minify_code(m1)
       IN  \/ /\ mpc' = "twice"
              /\ \E g \in (IF r.ub THEN Garbage ELSE {<<>>}) : m2' = r.text \o g
           \/ /\ r.ub
              /\ mpc' = "crash"
              /\ m2' = m2
    /\ UNCHANGED <<mtext, m1, preVars, parVars, blkVars>>

MinNext == MinifyFirst \/ MinifySecond

SpecMinify == MinInit /\ [][MinNext]_vars

\* C4: the minify step is idempotent: minifying minified text gives the
\* same text, for every input text.
C4_MinifyIdempotent == mpc = "twice" => m2 = m1

(***************************************************************************)
(* Properties of the preprocessor.                                         *)
(***************************************************************************)
Range(f) == {f[i] : i \in DOMAIN f}

\* A #else or a #endif has been met on an empty conditional stack.
MismatchLogged == ErrElse \in Range(log) \/ ErrEndif \in Range(log)

\* The directive at s is the one called directive, and the step taken from
\* here stays in the scan.
DirectiveStep(directive) ==
    AtDirective /\ tok.text = directive /\ pc' = "scan"

Defined(n) == n \in DOMAIN this_defines

AllTrue(stack) == \A i \in 1..Len(stack) : stack[i] # 0

\* C1: while no #else or #endif has met an empty stack, the enabled flag
\* define_ok is the logical AND of all entries of the conditional stack (true
\* when the stack is empty); #ifdef NAME pushes defined(NAME), #ifndef NAME
\* pushes its negation, #else negates the top entry only and #endif removes
\* the top entry only, in enabled and in disabled regions alike.
C1_EnabledIsAndOfStack ==
    /\ [](pc \in {"scan", "returned"} /\ ~MismatchLogged
            => (define_ok # 0 <=> AllTrue(defines)))
    /\ [][/\ DirectiveStep(Str_ifdef) =>
                defines' = Append(defines,
                    IF Defined(read_name(data, tok.pos).text) THEN 1 ELSE 0)
          /\ DirectiveStep(Str_ifndef) =>
                defines' = Append(defines,
                    IF Defined(read_name(data, tok.pos).text) THEN 0 ELSE 1)
          /\ DirectiveStep(Str_else) /\ defines # <<>> =>
                /\ Len(defines') = Len(defines)
                /\ \A i \in 1..Len(defines) :
                      IF i = Len(defines)
                      THEN (defines'[i] # 0) <=> (defines[i] = 0)
                      ELSE defines'[i] = defines[i]
          /\ DirectiveStep(Str_endif) /\ defines # <<>> =>
                defines' = SubSeq(defines, 1, Len(defines) - 1)]_vars

\* C1 witness: a true entry pushed by #ifndef inside a disabled region.
C1_Witness ==
    /\ pc = "scan"
    /\ ~MismatchLogged
    /\ defines = <<0, 1>>
    /\ define_ok = 0
    /\ buf = Str_ifndef

\* C2: a #else or #endif met on an empty conditional stack is fatal: once it
\* has been reported the call scans no further input and returns no text.
C2_MismatchIsFatal ==
    MismatchLogged => (pc \notin {"scan", "returned"} /\ ret # "data")

\* C3: a call that reaches the end of its input with a non-empty conditional
\* stack hands no text buffer to its caller, and never a released one.
C3_UnterminatedIsFatal ==
    (pc = "returned" /\ defines # <<>>) => (ret # "data" /\ ~freed)

\* No quote character stands in the text.
NoQuotes(t) == \A i \in 1..Len(t) : t[i] \notin {"\"", "'"}

\* The last Len(v) characters of the text are v.
EndsWith(t, v) ==
    Len(t) >= Len(v) /\ SubSeq(t, Len(t) - Len(v) + 1, Len(t)) = v

\* C5: every identifier-like run of an enabled region that stands outside
\* literals and names a macro with a non-empty value is replaced by the
\* value, also when the run is the last thing of the input: if the input
\* holds no literal, is enabled at its end and ends with such a run on a line
\* or statement of its own, the returned text ends with the macro's value.
C5_TrailingRunReplaced ==
    (/\ pc = "returned"
     /\ callers = <<>>
     /\ defines = <<>>
     /\ log = <<>>
     /\ NoQuotes(input)
     /\ input # <<>>)
    => LET t == RunStart(input, Len(input))
           run == SubSeq(input, t, Len(input))
       IN  (/\ t > 1
            /\ t <= Len(input)
            /\ input[t - 1] \in {"\n", ";"}
            /\ Defined(run)
            /\ this_defines[run] \notin {<<>>, <<"0">>})
           => EndsWith(data, this_defines[run])

\* C6: a matched macro name is deleted exactly when its value is empty or is
\* the one-character text "0"; with every other value the name is replaced
\* by the whole value.  Stated for the step that copies the delimiter c after
\* a run that names a macro: the output up to c is the text before the run,
\* then the value (or nothing), then c.
C6_DeletedOnlyWhenEmptyOrZero ==
    [][(/\ InLoop
        /\ pc' = "scan"
        /\ define_ok # 0
        /\ d > 1
        /\ data[s] \in Delims \ {"'", "#"}
        /\ Defined(SubSeq(data, RunStart(data, d - 1), d - 1)))
       => LET t == RunStart(data, d - 1)
              value == this_defines[SubSeq(data, t, d - 1)]
              put == IF value \in {<<>>, <<"0">>} THEN <<>> ELSE value
              out == SubSeq(data, 1, t - 1) \o put \o <<data[s]>>
          IN  /\ Len(data') >= Len(out)
              /\ SubSeq(data', 1, Len(out)) = out
              /\ d' >= Len(out) + 1]_vars

\* The including call's frame, while an included file is being processed.
Including == callers[Len(callers)]

\* The first lookup of the include fails and the second one finds a file.
OnlySecondLookupFinds ==
    /\ callers # <<>>
    /\ getFile(Including.name, input) = NoFile
    /\ getFile(JoinPath(Including.path, Including.name), input) # NoFile

\* C7: an enabled #include looks the file up as given and then in the
\* directory of the including file; when only the second lookup finds the
\* file the include is not fatal and splices that file's text (which is not
\* empty) at the current position.
C7_SecondLookupSucceeds ==
    /\ [](OnlySecondLookupFinds => pc \notin {"abort", "crash"})
    /\ [][(OnlySecondLookupFinds /\ pc = "returned" /\ pc' = "scan")
            => d' > Including.d]_vars

(***************************************************************************)
(* The type registry.  A hash is modelled by the text it is the hash of    *)
(* (getHash is taken to be injective on the names of a run); ZeroHash is   *)
(* the value 0 of a hash_t that was given no name.                         *)
(***************************************************************************)
ZeroHash == <<NUL>>

getHash(t) == t

\* __internal_hash: entry i of the table is InternalHash[i + 1].
InternalHash ==
    << <<"v", "o", "i", "d">>, <<"o", "c", "t", "e", "t">>, <<"i", "n", "t", "8", "_", "t">>, <<"i", "n", "t", "1", "6", "_", "t">>, <<"s", "h", "o", "r", "t">>, <<"i", "n", "t", "3", "2", "_", "t">>,
       <<"i", "n", "t">>, <<"l", "o", "n", "g">>, <<"i", "n", "t", "6", "4", "_", "t">>, <<"l", "o", "n", "g", " ", "l", "o", "n", "g">>, <<"u", "i", "n", "t", "8", "_", "t">>,
       <<"u", "i", "n", "t", "1", "6", "_", "t">>, <<"u", "i", "n", "t", "3", "2", "_", "t">>, <<"u", "i", "n", "t", "6", "4", "_", "t">>, <<"b", "o", "o", "l">>, <<"b", "o", "o", "l", "e", "a", "n">>,
       <<"c", "h", "a", "r">>, <<"f", "l", "o", "a", "t">>, <<"s", "t", "r", "i", "n", "g">>, <<"d", "o", "u", "b", "l", "e">>, <<"s", "e", "q", "u", "e", "n", "c", "e">>, <<"c", "o", "n", "s", "t">>,
       <<"s", "t", "r", "u", "c", "t">>, <<"m", "o", "d", "u", "l", "e">>, <<"t", "y", "p", "e", "d", "e", "f">> >>

ID_SEQUENCE == 20
LAST_TYPE == 22
BASE_START == 22
ID_STRUCT == 22
ID_MODULE == 23
ID_TYPEDEF == 24
LAST_BASE == 25
TYPE_SPACER == 1024
BASE_SPACER == 4096
USER_BASE_SPACER_TYPEDEF == 8192
USER_BASE_SPACER_STRUCT == 16384

\* Typedef_t(): the members a constructed entry starts with.
Typedef_t ==
    [hash |-> ZeroHash, type |-> 0, name |-> <<>>, baseName |-> <<>>,
     nameSpace |-> <<>>, size |-> -1]

\* The least element of a non-empty set of integers.
Least(S) == CHOOSE x \in S : \A y \in S : x <= y

\* for (i = lo; i < hi; ++i) if (hash == __internal_hash[i].hash): the first
\* such i, or -1.
TableIndex(h, lo, hi) ==
    LET hits == {i \in lo..(hi - 1) : InternalHash[i + 1] = h}
    IN  IF hits = {} THEN -1 ELSE Least(hits)

\* for (i = 0; i < v.size(); ++i) if (v[i].hash == hash): the first such i
\* (0-based), or -1.
VectorIndex(v, h) ==
    LET hits == {i \in 1..Len(v) : v[i].hash = h}
    IN  IF hits = {} THEN -1 ELSE Least(hits) - 1

\* The classifiers return [found, result]: the int returned and the int&.
is_builtin_type(h) ==
    LET i == TableIndex(h, 0, LAST_TYPE)
    IN  [found |-> i # -1, result |-> IF i # -1 THEN i + TYPE_SPACER ELSE -1]

is_builtin_base(h) ==
    LET i == TableIndex(h, BASE_START, LAST_BASE)
    IN  [found |-> i # -1, result |-> IF i # -1 THEN i + BASE_SPACER ELSE -1]

is_struct(sts, h) ==
    LET i == VectorIndex(sts, h)
    IN  [found |-> i # -1,
         result |-> IF i # -1 THEN i + USER_BASE_SPACER_STRUCT ELSE -1]

is_typedef(tds, h) ==
    LET i == VectorIndex(tds, h)
    IN  [found |-> i # -1,
         result |-> IF i # -1 THEN i + USER_BASE_SPACER_TYPEDEF ELSE -1]

is_user_base(tds, sts, h) ==
    IF is_typedef(tds, h).found THEN is_typedef(tds, h) ELSE is_struct(sts, h)

\* if (is_builtin_type(hash, result) || is_user_base(hash, result))
is_type(tds, sts, h) ==
    IF is_builtin_type(h).found THEN is_builtin_type(h)
    ELSE is_user_base(tds, sts, h)

\* getBase(hash): the base code (ne_assert(0) when the hash is no base).
getBase(h) == is_builtin_base(h).result

\* type2Name(type), for a code a classifier returned.
type2Name(tds, sts, code) ==
    IF code >= USER_BASE_SPACER_STRUCT
    THEN sts[code - USER_BASE_SPACER_STRUCT + 1].name
    ELSE IF code >= USER_BASE_SPACER_TYPEDEF
    THEN tds[code - USER_BASE_SPACER_TYPEDEF + 1].name
    ELSE IF code >= BASE_SPACER THEN InternalHash[code - BASE_SPACER + 1]
    ELSE IF code >= TYPE_SPACER THEN InternalHash[code - TYPE_SPACER + 1]
    ELSE <<>>

\* A variant of the resolution that hands back the base's entry as it is,
\* without putting the type code and the bound of the typedef back.
RECURSIVE ResolveToBase(_, _, _, _, _)
ResolveToBase(tds, sts, ns, h, seen) ==
    LET b == TableIndex(h, 0, LAST_TYPE)
        i == VectorIndex(tds, h)
        j == VectorIndex(sts, h)
    IN  IF b # -1
        THEN [ok |-> TRUE,
              t |-> [Typedef_t EXCEPT !.hash = h, !.name = InternalHash[b + 1],
                                      !.type = b + TYPE_SPACER]]
        ELSE IF i # -1
        THEN IF tds[i + 1].baseName = <<>> THEN [ok |-> TRUE, t |-> tds[i + 1]]
             ELSE IF h \in seen THEN [ok |-> FALSE, t |-> Typedef_t]
             ELSE ResolveToBase(tds, sts, ns, getHash(tds[i + 1].baseName),
                                seen \cup {h})
        ELSE IF j # -1
        THEN [ok |-> TRUE,
              t |-> [Typedef_t EXCEPT !.hash = h, !.name = sts[j + 1].name,
                                      !.nameSpace = ns,
                                      !.baseName = sts[j + 1].name,
                                      !.type = ID_STRUCT + USER_BASE_SPACER_STRUCT]]
        ELSE [ok |-> TRUE, t |-> Typedef_t]

getBaseType(tds, sts, ns, h) == ResolveToBase(tds, sts, ns, h, {}).t

\* getRealType(hash) with the names already entered (seen): [ok, t].  The
\* code recurses without a limit; a name met again on the way down means the
\* recursion never returns (ok = FALSE).
RECURSIVE RealType(_, _, _, _, _)
RealType(tds, sts, ns, h, seen) ==
    LET b == TableIndex(h, 0, LAST_TYPE)
        i == VectorIndex(tds, h)
        j == VectorIndex(sts, h)
    IN  IF b # -1
        THEN [ok |-> TRUE,
              t |-> [Typedef_t EXCEPT !.hash = h, !.name = InternalHash[b + 1],
                                      !.type = b + TYPE_SPACER]]
        ELSE IF i # -1
        THEN IF tds[i + 1].baseName = <<>> THEN [ok |-> TRUE, t |-> tds[i + 1]]
             ELSE IF h \in seen THEN [ok |-> FALSE, t |-> Typedef_t]
             ELSE LET r == RealType(tds, sts, ns, getHash(tds[i + 1].baseName),
                                    seen \cup {h})
                  IN  [ok |-> r.ok,
                       t |-> [r.t EXCEPT !.type = tds[i + 1].type,
                                         !.size = tds[i + 1].size]]
        ELSE IF j # -1
        THEN [ok |-> TRUE,
              t |-> [Typedef_t EXCEPT !.hash = h, !.name = sts[j + 1].name,
                                      !.nameSpace = ns,
                                      !.baseName = sts[j + 1].name,
                                      !.type = ID_STRUCT + USER_BASE_SPACER_STRUCT]]
        ELSE [ok |-> TRUE, t |-> Typedef_t]

\* getRealType(hash): the entry returned, and whether the call returns.
getRealType(tds, sts, ns, h) == RealType(tds, sts, ns, h, {}).t

Resolves(tds, sts, ns, h) == RealType(tds, sts, ns, h, {}).ok

(***************************************************************************)
(* The text helpers of String (str.h) and of the C library that the parser *)
(* calls.                                                                  *)
(***************************************************************************)
\* String::replace(a, b): every occurrence of a, left to right, becomes b.
RECURSIVE Replace(_, _, _)
Replace(t, a, b) ==
    CASE Len(t) < Len(a) -> t
      [] Len(t) >= Len(a) /\ SubSeq(t, 1, Len(a)) = a ->
            b \o Replace(SubSeq(t, Len(a) + 1, Len(t)), a, b)
      [] OTHER -> <<t[1]>> \o Replace(Tail(t), a, b)

\* Explode(text, sep): the pieces between the separators; an empty piece is
\* no piece ("::name1::name2" gives 0: name1, 1: name2).
RECURSIVE ExplodeFrom(_, _, _, _, _)
ExplodeFrom(t, sep, i, piece, out) ==
    LET closed == IF piece = <<>> THEN out ELSE Append(out, piece)
    IN  CASE i > Len(t) -> closed
          [] i <= Len(t) /\ t[i] = sep -> ExplodeFrom(t, sep, i + 1, <<>>, closed)
          [] OTHER -> ExplodeFrom(t, sep, i + 1, Append(piece, t[i]), out)

Explode(t, sep) == ExplodeFrom(t, sep, 1, <<>>, <<>>)

\* String::find(sub) != String::npos
Contains(t, sub) ==
    \E i \in 1..(Len(t) - Len(sub) + 1) : SubSeq(t, i, i + Len(sub) - 1) = sub

\* String::basename(text): what follows the last / or \ of the text.
basename(t) == SubSeq(t, LastSlash(t, Len(t)) + 1, Len(t))

DigitValue(c) == CASE c = "0" -> 0 [] c = "1" -> 1 [] c = "2" -> 2 [] c = "3" -> 3
                   [] c = "4" -> 4 [] c = "5" -> 5 [] c = "6" -> 6 [] c = "7" -> 7
                   [] c = "8" -> 8 [] c = "9" -> 9

RECURSIVE DigitsValue(_, _, _)
DigitsValue(t, i, acc) ==
    IF isdigit(At(t, i)) THEN DigitsValue(t, i + 1, acc * 10 + DigitValue(t[i]))
    ELSE acc

\* typeDef.size = atol(text): blanks, a sign, then the digits that follow.
\* The bounds written in the texts of the model are far below 2^31, where
\* the long that atol returns and the int that keeps it are the same number.
atol(t) ==
    LET b == skip_spaces(t, 1)
        neg == At(t, b) = "-"
        first == IF At(t, b) \in {"-", "+"} THEN b + 1 ELSE b
        v == DigitsValue(t, first, 0)
    IN  IF neg THEN 0 - v ELSE v

\* remove_namespace(name, nameSpace): [text, nameSpace].
remove_namespace(n) ==
    LET flat == Replace(n, <<":", ":">>, <<"/">>)
        mar == Explode(flat, "/")
    IN  IF Len(mar) >= 2
        THEN [text |-> basename(mar[2]), nameSpace |-> mar[1]]
        ELSE [text |-> flat, nameSpace |-> <<>>]

\* expect_symbol(src, symbol): [pos, err].
expect_symbol(t, i, symbol) ==
    LET b == skip_spaces(t, i)
    IN  [pos |-> IF At(t, b) # NUL THEN b + 1 ELSE b,
         err |-> IF At(t, b) # symbol
                 THEN <<"expect_symbol: bad symbol">> ELSE <<>>]

\* A variant of parse_variable that never sets the key flag.
KeyFlagDropped(tds, sts, ns, type, struct_name, vname, fromNamespace, is_key) ==
    [hash |-> getHash(vname),
     type |-> getRealType(tds, sts, ns, type),
     is_key |-> FALSE,
     name |-> vname,
     struct_name |-> struct_name,
     fromNamespace |-> fromNamespace]

\* parse_variable(type, struct_name, name, fromNamespace, is_key): the
\* Variable_t it builds, which it also appends to the flat list.
\* A variable that does not keep the name of its struct.
StructNameDropped(tds, sts, ns, type, struct_name, vname, fromNamespace, is_key) ==
    [hash |-> getHash(vname),
     type |-> getRealType(tds, sts, ns, type),
     is_key |-> is_key,
     name |-> vname,
     struct_name |-> <<>>,
     fromNamespace |-> fromNamespace]

parse_variable(tds, sts, ns, type, struct_name, vname, fromNamespace, is_key) ==
    [hash |-> getHash(vname),
     type |-> getRealType(tds, sts, ns, type),
     is_key |-> is_key,
     name |-> vname,
     struct_name |-> struct_name,
     fromNamespace |-> fromNamespace]

\* error("unknown type: %x\n", hash) at the end of getRealType.
UnknownType(tds, sts, h) ==
    IF TableIndex(h, 0, LAST_TYPE) = -1 /\ VectorIndex(tds, h) = -1
       /\ VectorIndex(sts, h) = -1
    THEN <<"unknown type">> ELSE <<>>

Str_sequence == <<"s", "e", "q", "u", "e", "n", "c", "e">>

\* parse_typedef, the sequence branch: the Typedef_t it registers for the
\* pieces mar of the statement (mar[1] is sequence<...>, mar[2] the name).
SequenceEntry(tds, sts, ns, mar) ==
    LET mar2 == Explode(Replace(Replace(mar[1], <<"<">>, <<" ">>), <<">">>, <<" ">>), " ")
        typeDef == [Typedef_t EXCEPT !.hash = getHash(mar[2]),
                                     !.type = ID_SEQUENCE + TYPE_SPACER,
                                     !.name = mar[2],
                                     !.baseName = mar2[2],
                                     !.size = 0,
                                     !.nameSpace = ns]
        commas == Explode(mar[1], ",")
        mar3 == Explode(Replace(commas[1], <<"<">>, <<" ">>), " ")
        bound == Replace(commas[2], <<">">>, <<>>)
        named == IF Len(mar3) = 2
                 THEN [typeDef EXCEPT !.baseName =
                          getRealType(tds, sts, ns, getHash(mar3[2])).name]
                 ELSE typeDef
    IN  IF Len(commas) >= 2 THEN [named EXCEPT !.size = atol(bound)]
        ELSE typeDef

\* The sequence branch calls getRealType and the call does not return.
SequenceLoops(tds, sts, ns, mar) ==
    LET commas == Explode(mar[1], ",")
        mar3 == Explode(Replace(commas[1], <<"<">>, <<" ">>), " ")
    IN  /\ Len(commas) >= 2
        /\ Len(mar3) = 2
        /\ ~Resolves(tds, sts, ns, getHash(mar3[2]))

\* parse_typedef(body): [tds, err, ub, loops]: the typedef vector after the
\* call, the diagnostics, whether a vector was indexed past its end, and
\* whether the resolution of the element never returns.
parse_typedef(tds, sts, ns, body) ==
    LET mar == Explode(Replace(body, <<",", " ">>, <<",">>), " ")
        b_hash == IF Len(mar) >= 2 THEN getHash(mar[1]) ELSE ZeroHash
        cls == is_type(tds, sts, b_hash)
        same == [tds |-> tds, err |-> <<>>, ub |-> FALSE, loops |-> FALSE]
    IN  IF cls.found
        THEN [same EXCEPT !.tds = Append(tds,
                 [Typedef_t EXCEPT !.hash = getHash(mar[2]),
                                   !.type = cls.result,
                                   !.name = mar[2],
                                   !.baseName = type2Name(tds, sts, cls.result),
                                   !.nameSpace = ns])]
        ELSE IF mar = <<>> THEN [same EXCEPT !.ub = TRUE]
        ELSE IF Contains(mar[1], Str_sequence)
        THEN IF Len(mar) < 2
                \/ Len(Explode(Replace(Replace(mar[1], <<"<">>, <<" ">>),
                                       <<">">>, <<" ">>), " ")) < 2
             THEN [same EXCEPT !.err = <<"Type is a sequence">>, !.ub = TRUE]
             ELSE IF SequenceLoops(tds, sts, ns, mar)
             THEN [same EXCEPT !.err = <<"Type is a sequence">>, !.loops = TRUE]
             ELSE [same EXCEPT !.err = <<"Type is a sequence">>,
                               !.tds = Append(tds, SequenceEntry(tds, sts, ns, mar))]
        ELSE [same EXCEPT !.err = <<"Unknown type">>]

(***************************************************************************)
(* The declaration parser: IdlParser::parse over the preprocessed text.    *)
(* A nested call of parse goes on reading at the caller's position and     *)
(* hands the position back when it returns, so the calls in progress are   *)
(* a counter (depth).  The copy of the current line into `line`, which     *)
(* only the diagnostics read, is left out, and so is the call of           *)
(* Parser::minify in parse_struct, whose result (sbody) is only printed.   *)
(***************************************************************************)
preNoLog == <<pc, data, s, d, size, defines, define_ok, current_line, buf, name,
              path, file, freed, this_defines, callers, ret, input, ndebug,
              optimize_code>>

\* s += skip_spaces(s) at the top of the loop, and the character there.
p0 == skip_spaces(src, pos)

c0 == At(src, p0)

\* s += read_token(s, buf, sizeof(buf)); b_hash = getHash(buf)
ptok == read_token(src, p0)

b_hash == getHash(ptok.text)

\* The check of the next symbol before the token is read.
SymbolError ==
    IF ~isalpha(c0) /\ c0 \notin {"_", ":"}
    THEN <<"parse: unknown symbol">> ELSE <<>>

\* The loop is at a token to classify.
Declaring ==
    /\ ppc = "parse"
    /\ c0 \notin {NUL, ";", "{", "}"}
    /\ ptok.text # <<>>

\* The end of the source: every call in progress returns.
ParseEnd ==
    /\ ppc = "parse"
    /\ c0 = NUL
    /\ ppc' = "done"
    /\ pos' = p0
    /\ depth' = 0
    /\ UNCHANGED <<src, nameSpace, typedefs, structs, variables, udefines, str,
                   sbody, spos, log, preNoLog, minVars, blkVars>>

ParseSemicolon ==
    /\ ppc = "parse"
    /\ c0 = ";"
    /\ pos' = p0 + 1
    /\ UNCHANGED <<ppc, src, depth, nameSpace, typedefs, structs, variables,
                   udefines, str, sbody, spos, log, preNoLog, minVars, blkVars>>

\* '{': s++; s += parse(s);
ParseOpen ==
    /\ ppc = "parse"
    /\ c0 = "{"
    /\ pos' = p0 + 1
    /\ depth' = depth + 1
    /\ UNCHANGED <<ppc, src, nameSpace, typedefs, structs, variables, udefines,
                   str, sbody, spos, log, preNoLog, minVars, blkVars>>

\* '}': s++; break; the call returns to its caller, the outermost one to
\* optimize.
\* A close that takes the namespace back to the global one.
CloseRevertsNamespace ==
    /\ ppc = "parse"
    /\ c0 = "}"
    /\ pos' = p0 + 1
    /\ ppc' = IF depth = 0 THEN "done" ELSE "parse"
    /\ depth' = IF depth = 0 THEN 0 ELSE depth - 1
    /\ nameSpace' = <<>>
    /\ UNCHANGED <<src, typedefs, structs, variables, udefines, str,
                   sbody, spos, log, preNoLog, minVars, blkVars>>

ParseClose ==
    /\ ppc = "parse"
    /\ c0 = "}"
    /\ pos' = p0 + 1
    /\ ppc' = IF depth = 0 THEN "done" ELSE "parse"
    /\ depth' = IF depth = 0 THEN 0 ELSE depth - 1
    /\ UNCHANGED <<src, nameSpace, typedefs, structs, variables, udefines, str,
                   sbody, spos, log, preNoLog, minVars, blkVars>>

\* A character that starts no token: the diagnostic, an empty token, break.
ParseBadSymbol ==
    /\ ppc = "parse"
    /\ c0 \notin {NUL, ";", "{", "}"}
    /\ ptok.text = <<>>
    /\ log' = log \o SymbolError
    /\ pos' = p0
    /\ ppc' = IF depth = 0 THEN "done" ELSE "parse"
    /\ depth' = IF depth = 0 THEN 0 ELSE depth - 1
    /\ UNCHANGED <<src, nameSpace, typedefs, structs, variables, udefines, str,
                   sbody, spos, preNoLog, minVars, blkVars>>

\* A builtin type or a user type: a top-level variable.
ParseVariable ==
    /\ Declaring
    /\ is_type(typedefs, structs, b_hash).found
    /\ LET r == read_name(src, ptok.pos)
           b == read_block(src, ptok.pos, NUL, ";")
       IN  /\ pos' = b.pos
           /\ log' = log \o SymbolError \o r.err \o b.err
           /\ IF Resolves(typedefs, structs, nameSpace, b_hash)
              THEN /\ variables' = Append(variables,
                          parse_variable(typedefs, structs, nameSpace, b_hash,
                                         <<>>, b.text, <<>>, FALSE))
                   /\ ppc' \in (IF b.ub THEN {"parse", "crash"} ELSE {"parse"})
              ELSE /\ variables' = variables
                   /\ ppc' = "crash"
    /\ UNCHANGED <<src, depth, nameSpace, typedefs, structs, udefines, str,
                   sbody, spos, preNoLog, minVars, blkVars>>

\* typedef: the statement up to ';' goes to parse_typedef.
ParseTypedef ==
    /\ Declaring
    /\ ~is_type(typedefs, structs, b_hash).found
    /\ is_builtin_base(b_hash).result = ID_TYPEDEF + BASE_SPACER
    /\ LET b == read_block(src, skip_spaces(src, ptok.pos), NUL, ";")
           r == parse_typedef(typedefs, structs, nameSpace, b.text)
       IN  /\ pos' = b.pos
           /\ log' = log \o SymbolError \o b.err \o r.err
           /\ typedefs' = r.tds
           /\ ppc' \in (IF r.loops THEN {"crash"}
                        ELSE IF r.ub \/ b.ub THEN {"parse", "crash"}
                        ELSE {"parse"})
    /\ UNCHANGED <<src, depth, nameSpace, structs, variables, udefines, str,
                   sbody, spos, preNoLog, minVars, blkVars>>

\* struct: the name, '{', the body up to '}', then parse_struct up to its
\* loop over the statements of the body.
ParseStructBegin ==
    /\ Declaring
    /\ ~is_type(typedefs, structs, b_hash).found
    /\ is_builtin_base(b_hash).result = ID_STRUCT + BASE_SPACER
    /\ LET r == read_name(src, ptok.pos)
           e == expect_symbol(src, r.pos, "{")
           b == read_block(src, e.pos, NUL, "}")
       IN  /\ pos' = b.pos
           /\ log' = log \o SymbolError \o r.err \o e.err \o b.err
           /\ str' = [hash |-> getHash(r.text), type |-> getBase(b_hash),
                      name |-> r.text, nameSpace |-> nameSpace, fields |-> <<>>]
           /\ sbody' = b.text
           /\ spos' = skip_spaces(b.text, 1)
           /\ ppc' \in (IF b.ub THEN {"struct", "crash"} ELSE {"struct"})
    /\ UNCHANGED <<src, depth, nameSpace, typedefs, structs, variables,
                   udefines, preNoLog, minVars, blkVars>>

\* What the hash_t type of a statement may hold when no branch has set it
\* (three pieces or more, the first not @key): no name's hash, or the hash
\* of a type.
UninitHash == {ZeroHash, InternalHash[6]}

\* parse_struct: one statement of the body.
StructField ==
    /\ ppc = "struct"
    /\ At(sbody, spos) # NUL
    /\ LET b == read_block(sbody, spos, NUL, ";")
           mar == Explode(b.text, " ")
           keyed == Len(mar) >= 3 /\ mar[1] = <<"@", "k", "e", "y">>
           plain == Len(mar) = 2
           rn == remove_namespace(mar[1])
           fromNameSpace == IF keyed \/ plain THEN rn.nameSpace ELSE <<>>
           varName == IF keyed THEN mar[3] ELSE IF plain THEN mar[2] ELSE <<>>
       IN  /\ spos' = skip_spaces(sbody, b.pos)
           /\ IF Len(mar) >= 2
              THEN \E type \in (IF keyed THEN {getHash(mar[2])}
                                ELSE IF plain THEN {getHash(rn.text)}
                                ELSE UninitHash) :
                     /\ log' = log \o b.err
                               \o (IF keyed \/ plain THEN <<>>
                                   ELSE <<"Unknwon type for variable">>)
                               \o UnknownType(typedefs, structs, type)
                     /\ IF Resolves(typedefs, structs, nameSpace, type)
                        THEN LET v == parse_variable(typedefs, structs, nameSpace,
                                          type, str.name, varName, fromNameSpace,
                                          keyed)
                             IN  /\ variables' = Append(variables, v)
                                 /\ str' = [str EXCEPT !.fields = Append(@, v)]
                                 /\ ppc' \in (IF b.ub THEN {"struct", "crash"}
                                              ELSE {"struct"})
                        ELSE /\ ppc' = "crash"
                             /\ UNCHANGED <<variables, str>>
              ELSE /\ log' = log \o b.err
                   /\ ppc' \in (IF b.ub THEN {"struct", "crash"} ELSE {"struct"})
                   /\ UNCHANGED <<variables, str>>
    /\ UNCHANGED <<src, pos, depth, nameSpace, typedefs, structs, udefines,
                   sbody, preNoLog, minVars, blkVars>>

\* parse_struct: structs.push_back(str); back in parse: if (*s == ';') s++;
StructEnd ==
    /\ ppc = "struct"
    /\ At(sbody, spos) = NUL
    /\ structs' = Append(structs, str)
    /\ pos' = IF At(src, pos) = ";" THEN pos + 1 ELSE pos
    /\ ppc' = "parse"
    /\ UNCHANGED <<src, depth, nameSpace, typedefs, variables, udefines, str,
                   sbody, spos, log, preNoLog, minVars, blkVars>>

\* module: nameSpace = name; s += parse(s);
ParseModule ==
    /\ Declaring
    /\ ~is_type(typedefs, structs, b_hash).found
    /\ is_builtin_base(b_hash).result = ID_MODULE + BASE_SPACER
    /\ LET r == read_name(src, ptok.pos)
       IN  /\ pos' = r.pos
           /\ log' = log \o SymbolError \o r.err
           /\ nameSpace' = r.text
    /\ depth' = depth + 1
    /\ UNCHANGED <<ppc, src, typedefs, structs, variables, udefines, str,
                   sbody, spos, preNoLog, minVars, blkVars>>

\* A token that is a defined macro name: the line NAME(ARGS); is kept.
ParseUDefine ==
    /\ Declaring
    /\ ~is_type(typedefs, structs, b_hash).found
    /\ ~is_builtin_base(b_hash).found
    /\ ifdef(this_defines, ptok.text) = 1
    /\ LET b == read_block(src, ptok.pos, NUL, ")")
       IN  /\ pos' = b.pos
           /\ log' = log \o SymbolError \o b.err
           /\ udefines' = Append(udefines, [line |-> ptok.text \o b.text \o <<")", ";">>])
           /\ ppc' \in (IF b.ub THEN {"parse", "crash"} ELSE {"parse"})
    /\ UNCHANGED <<src, depth, nameSpace, typedefs, structs, variables, str,
                   sbody, spos, preNoLog, minVars, blkVars>>

\* Any other token: the diagnostic, and the loop goes on after the token.
ParseUnknownToken ==
    /\ Declaring
    /\ ~is_type(typedefs, structs, b_hash).found
    /\ ~is_builtin_base(b_hash).found
    /\ ifdef(this_defines, ptok.text) = 0
    /\ pos' = ptok.pos
    /\ log' = log \o SymbolError \o <<"parse: unknown token">>
    /\ UNCHANGED <<ppc, src, depth, nameSpace, typedefs, structs, variables,
                   udefines, str, sbody, spos, preNoLog, minVars, blkVars>>

ParNext ==
    \/ ParseEnd \/ ParseSemicolon \/ ParseOpen \/ ParseClose \/ ParseBadSymbol
    \/ ParseVariable \/ ParseTypedef \/ ParseStructBegin \/ StructField
    \/ StructEnd \/ ParseModule \/ ParseUDefine \/ ParseUnknownToken

(***************************************************************************)
(* The inputs of the parser: the text optimize hands to parse is what the  *)
(* preprocessor returned for a main file that defines the macro M as       *)
(* itself and then holds up to MaxDecls declarations.                      *)
(***************************************************************************)
MaxDecls == 3

DeclFrags ==
    { <<"t", "y", "p", "e", "d", "e", "f", " ", "u", "i", "n", "t", "3", "2", "_", "t", " ", "A", ";", "\n">>,
      <<"t", "y", "p", "e", "d", "e", "f", " ", "A", " ", "B", ";", "\n">>,
      <<"t", "y", "p", "e", "d", "e", "f", " ", "B", " ", "C", ";", "\n">>,
      <<"t", "y", "p", "e", "d", "e", "f", " ", "i", "n", "t", "3", "2", "_", "t", " ", "M", "y", "I", "n", "t", ";", "\n">>,
      <<"t", "y", "p", "e", "d", "e", "f", " ", "s", "e", "q", "u", "e", "n", "c", "e", "<", "M", "y", "I", "n", "t", ",", "1", "0", ">", " ", "Q", ";", "\n">>,
      <<"t", "y", "p", "e", "d", "e", "f", " ", "s", "e", "q", "u", "e", "n", "c", "e", "<", "M", "y", "I", "n", "t", ">", " ", "U", ";", "\n">>,
      <<"t", "y", "p", "e", "d", "e", "f", " ", "s", "e", "q", "u", "e", "n", "c", "e", "<", "i", "n", "t", "3", "2", "_", "t", ",", " ", "7", ">", " ", "V", ";", "\n">>,
      <<"s", "t", "r", "u", "c", "t", " ", "S", " ", "{", " ", "@", "k", "e", "y", " ", "i", "n", "t", "3", "2", "_", "t", " ", "i", "d", ";", " ", "i", "n", "t", "3", "2", "_", "t", " ", "v", "a", "l", "u", "e", ";", " ", "}", ";", "\n">>,
      <<"s", "t", "r", "u", "c", "t", " ", "T", " ", "{", " ", "B", " ", "f", ";", " ", "}", ";", "\n">>,
      <<"s", "t", "r", "u", "c", "t", " ", "W", " ", "{", " ", "c", "o", "n", "s", "t", " ", "B", " ", "g", ";", " ", "N", ":", ":", "S", " ", "h", ";", " ", "}", ";", "\n">>,
      <<"m", "o", "d", "u", "l", "e", " ", "N", " ", "{", "\n">>,
      <<"}", ";", "\n">>,
      <<"i", "n", "t", "3", "2", "_", "t", " ", "x", ";", "\n">>,
      <<"M", "(", "a", ")", ";", "\n">>,
      <<"z", "z", " ", "@", "\n">>,
      <<"m", "o", "d", "u", "l", "e", " ", "P", " ", "{", " ", "}", ";", "\n">>,
      <<"t", "y", "p", "e", "d", "e", "f", " ", "u", "i", "n", "t", "3", "2", "_", "t", " ", "i", "n", "t", ";", "\n">>,
      <<"s", "t", "r", "u", "c", "t", " ", "K", " ", "{", " ", "@", "k", "e", "y", " ", "u", "n", "s", "i", "g", "n", "e", "d", " ", "l", "o", "n", "g", " ", "x", ";", " ", "y", ";", " ", "}", ";", "\n">>,
      <<"s", "t", "r", "u", "c", "t", " ", "Y", " ", "{", " ", "@", "k", "e", "y", " ", "N", ":", ":", "S", " ", "k", ";", " ", "N", ":", ":", "S", " ", "h", ";", " ", "}", ";", "\n">>,
      <<"t", "y", "p", "e", "d", "e", "f", " ", "s", "e", "q", "u", "e", "n", "c", "e", "<", "X", ">", " ", "X", ";", "\n">>,
      <<"X", " ", "v", ";", "\n">>,
      <<"t", "y", "p", "e", "d", "e", "f", " ", "S", " ", "S", ";", "\n">> }

DefineM == Hash \o Str_define \o <<" ", "M", " ", "M", "\n">>

LineFeeds(t) == Cardinality({i \in 1..Len(t) : t[i] = "\n"})

\* What the preprocessor call of optimize leaves behind for the main file
\* DefineM \o decls: the declarations are returned as they are (M is
\* replaced by its own name), nothing is printed, and the define table holds
\* M and the __FILE__ and __LINE__ of the last character.  The locals of the
\* call are gone with it.
Preprocessed(decls) ==
    /\ input = DefineM \o decls
    /\ ndebug = FALSE
    /\ pc = "returned"
    /\ ret = "data"
    /\ data = decls
    /\ freed = FALSE
    /\ callers = <<>>
    /\ log = <<>>
    /\ this_defines =
          IF decls = <<>> THEN define(<<>>, <<"M">>, <<"M">>)
          ELSE define(define(define(<<>>, <<"M">>, <<"M">>), Str_FILE,
                             FileText(MainName, LineFeeds(decls))),
                      Str_LINE, IntToText(LineFeeds(decls)))

\* optimize: parse(rdata) on the text the preprocessor returned.
ParseInit ==
    /\ \E decls \in Concats(DeclFrags, MaxDecls) :
          /\ Preprocessed(decls)
          /\ src = decls
    /\ s = 1
    /\ d = 1
    /\ size = 0
    /\ defines = <<>>
    /\ define_ok = 1
    /\ current_line = 0
    /\ buf = <<>>
    /\ name = <<>>
    /\ path = <<>>
    /\ file = MainName
    /\ ppc = "parse"
    /\ pos = 1
    /\ depth = 0
    /\ nameSpace = <<>>
    /\ typedefs = <<>>
    /\ structs = <<>>
    /\ variables = <<>>
    /\ udefines = <<>>
    /\ str = <<>>
    /\ sbody = <<>>
    /\ spos = 1
    /\ mpc = "idle"
    /\ mtext = <<>>
    /\ m1 = <<>>
    /\ m2 = <<>>
    /\ optimize_code = input
    /\ BlkIdle

SpecParse == ParseInit /\ [][ParNext]_vars

(***************************************************************************)
(* Properties of the declaration parser and of the type registry.          *)
(***************************************************************************)
NonBlank(piece) == Explode(piece, " ") # <<>>

\* The statements of a struct body: the pieces between the ';', the blank
\* ones left out.
Statements(body) == SelectSeq(Explode(body, ";"), NonBlank)

KnownType(t) == is_type(typedefs, structs, getHash(t)).found

\* The statement is TYPE NAME or @key TYPE NAME with a known TYPE.
FieldStatement(st) ==
    LET m == Explode(st, " ")
    IN  \/ Len(m) = 2 /\ KnownType(m[1])
        \/ Len(m) = 3 /\ m[1] = <<"@", "k", "e", "y">> /\ KnownType(m[2])

\* The field name and the key flag the statement declares.
DeclaredField(st) ==
    LET m == Explode(st, " ")
    IN  [name |-> m[Len(m)], is_key |-> Len(m) = 3]

DeclaredFields(body) ==
    [k \in 1..Len(Statements(body)) |-> DeclaredField(Statements(body)[k])]

NamesAndKeys(fields) ==
    [k \in 1..Len(fields) |-> [name |-> fields[k].name, is_key |-> fields[k].is_key]]

\* C8: when every statement of a struct body is TYPE NAME; or
\* @key TYPE NAME; with a known TYPE, the struct entry that is registered
\* holds one field per statement, in the order of the statements, each with
\* the statement's NAME and with the key flag set exactly for the @key
\* statements.
C8_FieldsInOrderWithKeys ==
    [][(/\ ppc = "struct"
        /\ ppc' = "parse"
        /\ \A k \in 1..Len(Statements(sbody)) : FieldStatement(Statements(sbody)[k]))
       => /\ Len(structs') = Len(structs) + 1
          /\ structs'[Len(structs')].name = str.name
          /\ NamesAndKeys(structs'[Len(structs')].fields) = DeclaredFields(sbody)]_vars

\* C8 witness: struct S { @key int32_t id; int32_t value; }; is registered
\* with the fields id (key) and value (not key).
C8_Witness ==
    \E i \in 1..Len(structs) :
        /\ structs[i].name = <<"S">>
        /\ NamesAndKeys(structs[i].fields) =
              << [name |-> <<"i", "d">>, is_key |-> TRUE],
                 [name |-> <<"v", "a", "l", "u", "e">>, is_key |-> FALSE] >>

IsBuiltinCode(code) == code >= TYPE_SPACER /\ code < TYPE_SPACER + LAST_TYPE

IsTypedefCode(code) ==
    code >= USER_BASE_SPACER_TYPEDEF /\ code < USER_BASE_SPACER_TYPEDEF + Len(typedefs)

\* The typedef entry i was registered as an alias of the type its type code
\* names (and not as a sequence).
IsAlias(i) ==
    /\ IsBuiltinCode(typedefs[i].type) \/ IsTypedefCode(typedefs[i].type)
    /\ typedefs[i].baseName = type2Name(typedefs, structs, typedefs[i].type)
    /\ typedefs[i].size = -1

\* The builtin (its index in the table) at the bottom of the chain of
\* aliases that starts with the type code, or -1 when the code starts no
\* such chain.  A typedef code names an entry registered earlier.
RECURSIVE ChainBuiltin(_)
ChainBuiltin(code) ==
    IF IsBuiltinCode(code) THEN code - TYPE_SPACER
    ELSE IF IsTypedefCode(code) /\ IsAlias(code - USER_BASE_SPACER_TYPEDEF + 1)
    THEN ChainBuiltin(typedefs[code - USER_BASE_SPACER_TYPEDEF + 1].type)
    ELSE -1

\* The name of the entry is looked up to the entry itself: it is no builtin
\* keyword and no earlier typedef has the name.
LookedUp(i) ==
    /\ TableIndex(typedefs[i].hash, 0, LAST_TYPE) = -1
    /\ VectorIndex(typedefs, typedefs[i].hash) = i - 1

IndexOf(t, c) ==
    IF \E i \in 1..Len(t) : t[i] = c
    THEN Least({i \in 1..Len(t) : t[i] = c}) ELSE 0

\* The statement after the typedef keyword at the read position.
TypedefStatement == read_block(src, skip_spaces(src, ptok.pos), NUL, ";").text

\* The statement reads sequence<ELEMENT> NEWNAME or
\* sequence<ELEMENT,BOUND> NEWNAME.
IsSequenceStatement(st) ==
    /\ Len(st) > Len(Str_sequence)
    /\ SubSeq(st, 1, Len(Str_sequence) + 1) = Str_sequence \o <<"<">>
    /\ IndexOf(st, ">") > Len(Str_sequence) + 1
    /\ IndexOf(st, ",") = 0 \/ IndexOf(st, ",") < IndexOf(st, ">")
    /\ Len(Explode(SubSeq(st, IndexOf(st, ">") + 1, Len(st)), " ")) = 1
    /\ Len(Explode(SubSeq(st, Len(Str_sequence) + 2,
                          (IF IndexOf(st, ",") # 0 THEN IndexOf(st, ",")
                           ELSE IndexOf(st, ">")) - 1), " ")) = 1

SequenceElement(st) ==
    Explode(SubSeq(st, Len(Str_sequence) + 2,
                   (IF IndexOf(st, ",") # 0 THEN IndexOf(st, ",")
                    ELSE IndexOf(st, ">")) - 1), " ")[1]

SequenceBound(st) ==
    IF IndexOf(st, ",") = 0 THEN 0
    ELSE DigitsValue(st, skip_spaces(st, IndexOf(st, ",") + 1), 0)

SequenceNewName(st) == Explode(SubSeq(st, IndexOf(st, ">") + 1, Len(st)), " ")[1]

\* C10: typedef sequence<ELEMENT[,BOUND]> NEWNAME registers NEWNAME with the
\* sequence type code, the bound BOUND (0 when none is written) and, as its
\* base name, the name ELEMENT resolves to, with and without a BOUND.
C10_SequenceBaseNameResolved ==
    [][(/\ Declaring
        /\ ~is_type(typedefs, structs, b_hash).found
        /\ ptok.text = InternalHash[ID_TYPEDEF + 1]
        /\ IsSequenceStatement(TypedefStatement)
        /\ KnownType(SequenceElement(TypedefStatement))
        /\ ppc' = "parse")
       => /\ Len(typedefs') = Len(typedefs) + 1
          /\ typedefs'[Len(typedefs')].name = SequenceNewName(TypedefStatement)
          /\ typedefs'[Len(typedefs')].type = ID_SEQUENCE + TYPE_SPACER
          /\ typedefs'[Len(typedefs')].size = SequenceBound(TypedefStatement)
          /\ typedefs'[Len(typedefs')].baseName =
                getRealType(typedefs, structs, nameSpace,
                            getHash(SequenceElement(TypedefStatement))).name]_vars

(***************************************************************************)
(* The scanner primitive read_block called on its own, with an opener and  *)
(* a closer, on a text of a few fragments.  dest is taken large enough for *)
(* the text (the callers pass buffers of 1024 and 4096 characters).        *)
(***************************************************************************)
MaxBlockFrags == 4

BlockFrags ==
    { <<"{">>, <<"}">>, <<" ", "a", ";", " ", "{", " ", "b", ";", " ", "}", " ", "c", ";", " ">>, <<" ">>, <<"(">>, <<")">>, <<"\"">>, <<"\\", "\n">> }

BlockDelims == { <<"{", "}">>, <<"(", ")">>, <<"(", "}">>, <<" ", "}">> }

BlockInit ==
    /\ bsrc \in Concats(BlockFrags, MaxBlockFrags)
    /\ \E p \in BlockDelims : bfrom = p[1] /\ bto = p[2]
    /\ bpc = "call"
    /\ bdest = <<>>
    /\ bret = 0
    /\ pc = "idle"
    /\ data = <<>>
    /\ s = 1
    /\ d = 1
    /\ size = 0
    /\ defines = <<>>
    /\ define_ok = 1
    /\ current_line = 0
    /\ buf = <<>>
    /\ name = <<>>
    /\ path = <<>>
    /\ file = <<>>
    /\ freed = FALSE
    /\ this_defines = <<>>
    /\ callers = <<>>
    /\ ret = "none"
    /\ log = <<>>
    /\ input = <<>>
    /\ ndebug = FALSE
    /\ optimize_code = <<>>
    /\ mpc = "idle"
    /\ mtext = <<>>
    /\ m1 = <<>>
    /\ m2 = <<>>
    /\ ParIdle

\* One call read_block(bsrc, dest, size, bfrom, bto).  When the loop has
\* stepped over the terminator of src the call goes on in whatever follows
\* the text, or the process stops.
ReadBlock ==
    /\ bpc = "call"
    /\ LET r == read_block(bsrc, 1, bfrom, bto)
       IN  \/ /\ bpc' = "done"
              /\ \E g \in (IF r.ub THEN Garbage ELSE {<<>>}) :
                    /\ bdest' = r.text \o g
                    /\ bret' = r.pos - 1 + Len(g)
           \/ /\ r.ub
              /\ bpc' = "crash"
              /\ UNCHANGED <<bdest, bret>>
    /\ UNCHANGED <<bsrc, bfrom, bto, preVars, minVars, parVars>>

BlockNext == ReadBlock

SpecBlock == BlockInit /\ [][BlockNext]_vars

Count(t, c, j) == Cardinality({i \in 1..j : t[i] = c})

\* The nesting of the from/to pairs after the first j characters.
NestDepth(t, from, to, j) == Count(t, from, j) - Count(t, to, j)

\* The text begins with from and its from/to pairs are properly nested.
ProperlyNested(t, from, to) ==
    /\ Len(t) > 0
    /\ t[1] = from
    /\ \A j \in 1..Len(t) : NestDepth(t, from, to, j) >= 0
    /\ NestDepth(t, from, to, Len(t)) = 0

\* The place of the closer that matches the opener at place 1.
MatchingCloser(t, from, to) ==
    Least({j \in 1..Len(t) : NestDepth(t, from, to, j) = 0})

\* Up to the matching closer the text holds no double quote and no
\* backslash before a line feed, and as many '(' as ')'.
PlainBlock(t, from, to) ==
    LET m == MatchingCloser(t, from, to)
    IN  /\ \A j \in 1..m : t[j] # "\""
        /\ \A j \in 1..m : ~(t[j] = "\\" /\ At(t, j + 1) = "\n")
        /\ Count(t, "(", m) = Count(t, ")", m)

ModulesEntered ==
    {i \in 1..Len(src) :
        /\ i + Len(InternalHash[ID_MODULE + 1]) <= pos
        /\ SubSeq(src, i, i + Len(InternalHash[ID_MODULE + 1]) - 1)
              = InternalHash[ID_MODULE + 1]
        /\ ~IsTokenChar(At(src, i - 1))
        /\ ~IsTokenChar(At(src, i + Len(InternalHash[ID_MODULE + 1])))}

\* The name written after the module keyword entered last, empty before
\* the first module.
LastModuleName ==
    IF ModulesEntered = {} THEN <<>>
    ELSE LET i == CHOOSE j \in ModulesEntered : \A k \in ModulesEntered : k <= j
         IN  read_name(src, i + Len(InternalHash[ID_MODULE + 1])).text

\* C12: at every point of parsing the current namespace is the name of the
\* module entered last (empty before the first), whether or not that
\* module's block has been closed, and a struct is registered with the
\* namespace current at that point.
C12_NamespaceIsLastModule ==
    /\ [](ppc \in {"parse", "struct", "done"} => nameSpace = LastModuleName)
    /\ [][(ppc = "struct" /\ ppc' = "parse")
          => structs'[Len(structs')].nameSpace = nameSpace]_vars

\* C12 witness: in module N { module P { }; struct S ... the struct S is
\* registered with the namespace P, after the block of P has closed.
C12_Witness ==
    /\ src = <<"m", "o", "d", "u", "l", "e", " ", "N", " ", "{", "\n", "m", "o", "d", "u", "l", "e", " ", "P", " ", "{", " ", "}", ";", "\n", "s", "t", "r", "u", "c", "t", " ", "S", " ", "{", " ", "@", "k", "e", "y", " ", "i", "n", "t", "3", "2", "_", "t", " ", "i", "d", ";", " ", "i", "n", "t", "3", "2", "_", "t", " ", "v", "a", "l", "u", "e", ";", " ", "}", ";", "\n">>
    /\ Len(structs) = 1
    /\ structs[1].name = <<"S">>
    /\ structs[1].nameSpace = <<"P">>
    /\ nameSpace = <<"P">>

\* C13: a name registered by a typedef or a struct resolves to that
\* registration, also when the name is a builtin keyword: resolving the name
\* of a typedef gives the type code and the bound stored in the typedef's
\* entry, and resolving the name of a struct (that no typedef has) gives the
\* struct.
C13_UserRegistrationShadowsBuiltin ==
    /\ \A i \in 1..Len(typedefs) :
          VectorIndex(typedefs, typedefs[i].hash) = i - 1
          => LET r == getRealType(typedefs, structs, nameSpace, typedefs[i].hash)
             IN  r.type = typedefs[i].type /\ r.size = typedefs[i].size
    /\ \A k \in 1..Len(structs) :
          (/\ VectorIndex(typedefs, structs[k].hash) = -1
           /\ VectorIndex(structs, structs[k].hash) = k - 1)
          => LET r == getRealType(typedefs, structs, nameSpace, structs[k].hash)
             IN  /\ r.type = ID_STRUCT + USER_BASE_SPACER_STRUCT
                 /\ r.name = structs[k].name

IsGlobal(v) == v.struct_name = <<>>

IsField(v) == v.struct_name # <<>>

\* The fields of the registered structs, one struct after the other.
RECURSIVE AllFields(_)
AllFields(sts) ==
    IF sts = <<>> THEN <<>>
    ELSE AllFields(SubSeq(sts, 1, Len(sts) - 1)) \o sts[Len(sts)].fields

\* C14: between declarations the flat variable list holds, in parse order,
\* the fields of the registered structs (each with the name of its struct)
\* and the top-level variables (with an empty struct name), and nothing
\* else, so its length is the sum of the field counts plus the number of
\* top-level variables; a struct's fields are the entries appended last when
\* it is registered, a top-level declaration appends one entry, and no step
\* changes or removes an entry.
C14_FlatListHoldsEveryField ==
    /\ [](ppc \in {"parse", "done"}
          => /\ SelectSeq(variables, IsField) = AllFields(structs)
             /\ Len(variables) =
                   Len(AllFields(structs)) + Len(SelectSeq(variables, IsGlobal))
             /\ \A k \in 1..Len(structs) : \A f \in 1..Len(structs[k].fields) :
                   structs[k].fields[f].struct_name = structs[k].name)
    /\ [][/\ Len(variables') >= Len(variables)
          /\ SubSeq(variables', 1, Len(variables)) = variables]_vars
    /\ [][(ppc = "struct" /\ ppc' = "parse")
          => structs'[Len(structs')].fields =
                SubSeq(variables', Len(variables')
                                   - Len(structs'[Len(structs')].fields) + 1,
                       Len(variables'))]_vars
    /\ [][(Declaring /\ KnownType(ptok.text) /\ ppc' # "crash")
          => /\ Len(variables') = Len(variables) + 1
             /\ IsGlobal(variables'[Len(variables')])]_vars

\* C14 witness: after struct S { @key int32_t id; int32_t value; }; and
\* int32_t x; the flat list holds id and value of S and then the top-level x.
C14_Witness ==
    /\ ppc = "done"
    /\ Len(structs) = 1
    /\ Len(variables) = 3
    /\ structs[1].fields = <<variables[1], variables[2]>>
    /\ variables[1].struct_name = <<"S">>
    /\ variables[2].struct_name = <<"S">>
    /\ variables[3].struct_name = <<>>
    /\ variables[3].name = <<"x">>

\* The names used after the defines of an input, each followed by ';'.
RECURSIVE UsesText(_)
UsesText(us) ==
    IF us = <<>> THEN <<>> ELSE <<us[1], ";">> \o UsesText(Tail(us))

\* What one pass of substitution makes of those uses under the define
\* table: a defined name becomes its value (nothing when the value is empty
\* or begins with '0'), any other name stays.
RECURSIVE ExpandedOnce(_, _)
ExpandedOnce(us, tab) ==
    IF us = <<>> THEN <<>>
    ELSE (IF <<us[1]>> \in DOMAIN tab
          THEN (IF tab[<<us[1]>>] # <<>> /\ tab[<<us[1]>>][1] # "0"
                THEN tab[<<us[1]>>] ELSE <<>>)
          ELSE <<us[1]>>)
         \o <<";">> \o ExpandedOnce(Tail(us), tab)

ChainDefines ==
    { Hash \o Str_define \o <<" ", "A", " ", "B", "\n">>,
      Hash \o Str_define \o <<" ", "B", " ", "7", "\n">> }

\* C15: text inserted by a substitution is not expanded again: for an input
\* made of defines followed by uses NAME; the text a finished top-level
\* preprocessor call hands on, after the first call and after the call made
\* by optimize, is the uses expanded once.
C15_InsertedTextNotExpandedAgain ==
    \A defs \in Concats(ChainDefines, MaxFrags) :
        \A us \in SeqsUpTo({"A", "B"}, MaxFrags) :
            (/\ pc = "returned"
             /\ callers = <<>>
             /\ input = defs \o UsesText(us))
            => data = ExpandedOnce(us, this_defines)

\* The place of the first line feed at or after i, the place after the end
\* of the text when there is none.
LineEnd(t, i) ==
    IF \E j \in i..Len(t) : t[j] = "\n"
    THEN Least({j \in i..Len(t) : t[j] = "\n"}) ELSE Len(t) + 1

\* The NAME written after the directive at s, and the REST of its line.
DirectiveName == read_name(data, tok.pos)

RestOfLine ==
    SubSeq(data, SkipBlanks(data, DirectiveName.pos),
           LineEnd(data, DirectiveName.pos) - 1)

\* C16: #define NAME [REST] and #undef NAME change the define table only
\* while the enabled flag is true: in a disabled region the table after the
\* directive is the table before it; in an enabled region #define binds
\* NAME to REST (empty when nothing follows the name) and #undef removes
\* NAME, and a later #ifdef or #ifndef NAME tests the table as it then is.
C16_DefinesChangeOnlyWhileEnabled ==
    [][/\ DirectiveStep(Str_define) =>
             this_defines' = IF define_ok # 0
                             THEN define(this_defines, DirectiveName.text, RestOfLine)
                             ELSE this_defines
       /\ DirectiveStep(Str_undef) =>
             this_defines' = IF define_ok # 0
                             THEN undef(this_defines, DirectiveName.text)
                             ELSE this_defines
       /\ DirectiveStep(Str_ifdef) =>
             (defines'[Len(defines')] # 0 <=> Defined(DirectiveName.text))
       /\ DirectiveStep(Str_ifndef) =>
             (defines'[Len(defines')] # 0 <=> ~Defined(DirectiveName.text))]_vars

NewlinesIn(t) == Count(t, "\n", Len(t))

\* The main file as the scan receives it.
Minified == minify_code(input).text

\* The part of the main file that the scan has not read yet.
Unread == SubSeq(data, s, Len(data))

\* The scan of the main file is about to copy the delimiter that ends an
\* occurrence of __LINE__ in an enabled region.
AfterLineMacro ==
    /\ InLoop
    /\ callers = <<>>
    /\ define_ok # 0
    /\ data[s] \in Delims
    /\ data[s] # "#"
    /\ d > 1
    /\ SubSeq(data, RunStart(data, d - 1), d - 1) = Str_LINE
    /\ EndsWith(Minified, Unread)
    /\ EndsWith(SubSeq(Minified, 1, Len(Minified) - Len(Unread)), Str_LINE)

\* The text that the step has put where the run before d stood.
InsertedForRun == SubSeq(data', RunStart(data, d - 1), d' - 2)

\* C18: every occurrence of __LINE__ in an enabled region is replaced by
\* the number of line feeds of the minified input that precede it, whatever
\* delimiter follows it.
C18_LineIsNewlinesBefore ==
    [][(AfterLineMacro /\ pc' = "scan") =>
          InsertedForRun = IntToText(NewlinesIn(Minified) - NewlinesIn(Unread))]_vars

\* ---- malformed statements of a struct body ----

\* parse_struct is about to read a statement of the body.
AtStatement == ppc = "struct" /\ At(sbody, spos) # NUL

\* The space-separated tokens of that statement.
StatementTokens == Explode(read_block(sbody, spos, NUL, ";").text, " ")

\* The statement has been read, the parser goes on with the body, and
\* neither list has grown.
StatementDropped ==
    /\ ppc' = "struct"
    /\ spos' > spos
    /\ str'.fields = str.fields
    /\ variables' = variables

\* C19: a statement of exactly three tokens whose first token is not @key
\* appends no field to the struct and no entry to the flat variable list,
\* and a well-formed statement of two tokens still appends its field to
\* both.
C19_ThreeTokensWithoutKeyDropped ==
    [][/\ (AtStatement /\ Len(StatementTokens) = 3
           /\ StatementTokens[1] # <<"@", "k", "e", "y">> /\ ppc' # "crash") => StatementDropped
       /\ (AtStatement /\ Len(StatementTokens) = 2 /\ ppc' # "crash") =>
             /\ Len(str'.fields) = Len(str.fields) + 1
             /\ Len(variables') = Len(variables) + 1
             /\ str'.fields[Len(str'.fields)].name = StatementTokens[2]]_vars

\* C20: a statement of 0, 1, 4 or more tokens appends no field to the
\* struct and no entry to the flat variable list.
C20_OtherTokenCountsSkipped ==
    [][(AtStatement /\ Len(StatementTokens) \notin {2, 3} /\ ppc' # "crash")
          => StatementDropped]_vars

\* ---- key fields of a qualified type ----

\* The statement about to be read is `@key TYPE NAME`.
AtKeyedStatement ==
    /\ AtStatement
    /\ Len(StatementTokens) = 3
    /\ StatementTokens[1] = <<"@", "k", "e", "y">>

\* What the statement `TYPE NAME` of the same struct appends.
PlainField(type, vname) ==
    parse_variable(typedefs, structs, nameSpace,
                   getHash(remove_namespace(type).text), str.name, vname,
                   remove_namespace(type).nameSpace, FALSE)

\* C21: the statement `@key NS::T name` appends the field that `NS::T name`
\* appends, with the key flag set: the type is the resolution of the
\* unqualified T and fromNamespace is NS.
C21_KeyedQualifiedLikePlain ==
    [][(AtKeyedStatement /\ ppc' # "crash") =>
          /\ Len(str'.fields) = Len(str.fields) + 1
          /\ str'.fields[Len(str'.fields)] =
                [PlainField(StatementTokens[2], StatementTokens[3])
                    EXCEPT !.is_key = TRUE]]_vars

\* ---- termination of the type resolution ----

\* getRealType(h) returns after at most n calls of itself: a builtin, an
\* unknown name, a struct and a typedef without base name return at once, a
\* typedef with a base name asks for the hash of that name.
RECURSIVE ReturnsWithin(_, _)
ReturnsWithin(h, n) ==
    LET i == VectorIndex(typedefs, h)
    IN  IF n = 0 THEN FALSE
        ELSE IF TableIndex(h, 0, LAST_TYPE) # -1 THEN TRUE
        ELSE IF i = -1 THEN TRUE
        ELSE IF typedefs[i + 1].baseName = <<>> THEN TRUE
        ELSE ReturnsWithin(getHash(typedefs[i + 1].baseName), n - 1)

\* The hashes of the names the registry holds.
RegisteredHashes ==
    {typedefs[i].hash : i \in 1..Len(typedefs)}
       \cup {structs[i].hash : i \in 1..Len(structs)}

\* C22: after any declarations the parser has accepted, getRealType returns
\* for every registered name: a chain of base names visits each typedef at
\* most once, so it ends within Len(typedefs) + 1 calls.
C22_ResolutionTerminates ==
    \A h \in RegisteredHashes : ReturnsWithin(h, Len(typedefs) + 1)

\* ---- type codes and the tables they index ----

\* type2Name(code) reads an entry that exists: the band of the code is one
\* of the four and the index in it is inside the table of that band.
ValidCode(code) ==
    IF code >= USER_BASE_SPACER_STRUCT
    THEN code - USER_BASE_SPACER_STRUCT < Len(structs)
    ELSE IF code >= USER_BASE_SPACER_TYPEDEF
    THEN code - USER_BASE_SPACER_TYPEDEF < Len(typedefs)
    ELSE IF code >= BASE_SPACER THEN code - BASE_SPACER < Len(InternalHash)
    ELSE code >= TYPE_SPACER /\ code - TYPE_SPACER < Len(InternalHash)

\* The hashes of the builtin type names.
BuiltinHashes == {InternalHash[i] : i \in 1..LAST_TYPE}

\* The name is resolved as a struct: no builtin and no typedef has it.
ResolvedAsStruct(h) ==
    /\ TableIndex(h, 0, LAST_TYPE) = -1
    /\ VectorIndex(typedefs, h) = -1
    /\ VectorIndex(structs, h) # -1

\* C23: for every builtin, typedef or struct name whose resolution returns,
\* the type code of the result is a code whose band entry exists, and for
\* a struct it is the code is_struct gives for the name and type2Name
\* takes it back to that name.
C23_CodesRoundTrip ==
    \A h \in BuiltinHashes \cup RegisteredHashes :
       ReturnsWithin(h, Len(typedefs) + 1) =>
          LET code == getRealType(typedefs, structs, nameSpace, h).type
          IN  /\ ValidCode(code)
              /\ ResolvedAsStruct(h) =>
                    /\ code = is_struct(structs, h).result
                    /\ getHash(type2Name(typedefs, structs, code)) = h

====
